---- MODULE Spec2Model ----
(***************************************************************************)
(* Model of the MCP4Humans connection manager: the session registry        *)
(* (activeClients) with mcpConnect / mcpDisconnect / mcpGetTools /         *)
(* mcpCallTool, the orchestration around them (mcpConnectAndBuildSchema,   *)
(* the MCPConnect command), the per-server log and the tool-result         *)
(* classification of the server detail view.                               *)
(*                                                                         *)
(* Every async function is cut at its await points: one action per         *)
(* resumption, so calls in flight interleave exactly where the event loop  *)
(* can interleave them.                                                    *)
(***************************************************************************)
EXTENDS Integers, Sequences, FiniteSets, TLC

\* ---------------------------------------------------------------- bounds
MaxCalls == 3        \* registry calls issued in one behaviour
MaxInFlight == 2     \* registry calls that may be outstanding at the same time
MaxBuildCalls == 2   \* connect-and-fetch orchestrations issued in one behaviour
MaxExecCalls == 1    \* tool executions issued in one behaviour
TickMs == 100        \* granularity of the clock, in milliseconds
MaxElapsed == 300    \* the clock of a tool execution stops advancing here
MaxSpawnCalls == 1   \* STDIO connects issued in one behaviour of SpecSpawn
MaxArgs == 2         \* length of the configured argument list
MaxFetchCalls == 1   \* tool fetches issued in one behaviour of SpecSchema
MaxProps == 2        \* properties of a tool's input schema
MaxAppends == 102    \* log entries appended in one behaviour of SpecLog
MaxReadAppends == 3  \* log entries appended in one behaviour of SpecRead
MaxStoreCalls == 3   \* storage operations in one behaviour of SpecStore
MaxOps == 2          \* client calls issued in one behaviour of SpecOps

\* ------------------------------------------------------ program constants
maxLogEntries == 100
MinLatency == 200

\* ------------------------------------------------------------ input sets
Names == {"A", "B"}
Slots == 1..MaxInFlight

\* transport configurations a ServerConfig may carry
\*   stdio       transportType STDIO with a stdioConfig
\*   stdioNoCfg  transportType STDIO, stdioConfig missing
\*   http        transportType HTTP with a url ending in /mcp or /sse
\*   httpBadPath transportType HTTP, url that new URL() accepts with another path
\*   httpNoUrl   transportType HTTP, httpConfig.url missing
\*   httpBadUrl  transportType HTTP, url that new URL() rejects
\*   other       any other transportType
ConfigKinds == {"stdio", "stdioNoCfg", "http", "httpNoUrl", "httpBadUrl", "httpBadPath", "other"}

NoError == <<>>
NoData == <<>>

VARIABLES activeClients, sessions, logs, servers, calls, issued

vars == <<activeClients, sessions, logs, servers, calls, issued>>

\* ------------------------------------------------------------- registry
\* activeClients[n] is the index in sessions of the Client stored under n,
\* 0 when the key is absent.
mcpIsServerConnected(reg, serverName) == reg[serverName] # 0

\* a Client whose handshake succeeded; st is "live" until close() resolves
NewSession(n) == [name |-> n, st |-> "live"]

LiveSessions(n) == {i \in 1..Len(sessions) : sessions[i].name = n /\ sessions[i].st = "live"}

\* ------------------------------------------------------------------ log
LogEntry(message, rawData, isError, timestamp) ==
  [message |-> message, rawData |-> rawData, isError |-> isError,
   timestamp |-> timestamp]

\* variant of addLogAt that removes the newest entry of a full log
addLogAt_Pop(lg, serverName, message, rawData, isError, now) ==
  LET pushed == Append(lg[serverName], LogEntry(message, rawData, isError, now))
  IN [lg EXCEPT ![serverName] =
        IF Len(pushed) > maxLogEntries THEN SubSeq(pushed, 1, Len(pushed) - 1) ELSE pushed]

\* LogService.addLog, the reading of the clock (new Date()) being now
addLogAt(lg, serverName, message, rawData, isError, now) ==
  LET pushed == Append(lg[serverName], LogEntry(message, rawData, isError, now))
  IN [lg EXCEPT ![serverName] =
        IF Len(pushed) > maxLogEntries THEN Tail(pushed) ELSE pushed]

\* the latest reading of the clock that some entry carries
Now(lg) ==
  LET stamps == {0} \cup UNION {{lg[n][i].timestamp : i \in 1..Len(lg[n])} : n \in DOMAIN lg}
  IN CHOOSE t \in stamps : \A u \in stamps : u <= t

\* LogService.addLog in a millisecond in which the clock has not advanced;
\* the steps of the client calls append with it, their timestamps being
\* read by nobody
addLog(lg, serverName, message, rawData, isError) ==
  addLogAt(lg, serverName, message, rawData, isError, Now(lg))

\* LogService.getLogs: a copy of the server's entries, sorted by timestamp,
\* latest first; the sort is stable, entries of one timestamp keep the
\* order they have in the log
getLogs(lg, serverName) ==
  LET entries == lg[serverName]
      Before(i, j) ==
        \/ entries[i].timestamp > entries[j].timestamp
        \/ entries[i].timestamp = entries[j].timestamp /\ i < j
      Rank(i) == 1 + Cardinality({j \in 1..Len(entries) : Before(j, i)})
  IN [k \in 1..Len(entries) |-> entries[CHOOSE i \in 1..Len(entries) : Rank(i) = k]]

\* LogService.clearLogs
clearLogs(lg, serverName) == [lg EXCEPT ![serverName] = <<>>]

\* ---------------------------------------------------------- ApiResponse
Ok == [success |-> TRUE, error |-> NoError, hasData |-> FALSE, data |-> NoData]
OkData(d) == [success |-> TRUE, error |-> NoError, hasData |-> TRUE, data |-> d]
Fail(e) == [success |-> FALSE, error |-> e, hasData |-> FALSE, data |-> NoData]

\* ------------------------------------------------------------------ text
\* A JavaScript string is the sequence of its characters.
Str_error == <<"e", "r", "r", "o", "r">>
Str_status == <<"s", "t", "a", "t", "u", "s">>
Str_null == <<"n", "u", "l", "l">>
Str_true == <<"t", "r", "u", "e">>
Str_false == <<"f", "a", "l", "s", "e">>
Str_object == <<"[", "o", "b", "j", "e", "c", "t", " ", "O", "b", "j", "e", "c", "t", "]">>

\* the positions of e, r, r, o, r in the alphabet
Str_errorIdx == <<5, 18, 18, 15, 18>>

UpperCase == <<"A", "B", "C", "D", "E", "F", "G", "H", "I", "J", "K", "L", "M", "N", "O", "P", "Q", "R", "S", "T", "U", "V", "W", "X", "Y", "Z">>
LowerCase == <<"a", "b", "c", "d", "e", "f", "g", "h", "i", "j", "k", "l", "m", "n", "o", "p", "q", "r", "s", "t", "u", "v", "w", "x", "y", "z">>
Digits == {"0", "1", "2", "3", "4", "5", "6", "7", "8", "9"}
\* JSON whitespace
WhiteSpace == {" ", "\t", "\n", "\r"}

\* String.prototype.toLowerCase
\* variant of toLowerCase that leaves every character as it is
toLowerCase_Unchanged(s) == s

toLowerCase(s) ==
  [i \in 1..Len(s) |->
     IF \E j \in 1..26 : UpperCase[j] = s[i]
       THEN LowerCase[CHOOSE j \in 1..26 : UpperCase[j] = s[i]]
       ELSE s[i]]

\* does p occur in s at position i
HasPrefixAt(s, i, p) == i + Len(p) - 1 <= Len(s) /\ SubSeq(s, i, i + Len(p) - 1) = p

\* String.prototype.startsWith
startsWith(s, p) == HasPrefixAt(s, 1, p)

\* ------------------------------------------------------------- JSON.parse
\* a parsed value: t is its kind; chars the text of a string, number or
\* literal; items the elements of an array or the member values of an
\* object; keys the member names of an object
JValue(t, chars, items, keys) == [t |-> t, chars |-> chars, items |-> items, keys |-> keys]
JNull == JValue("null", Str_null, <<>>, <<>>)
JBool(b) == JValue("bool", IF b THEN Str_true ELSE Str_false, <<>>, <<>>)
JNum(chars) == JValue("num", chars, <<>>, <<>>)
JStr(chars) == JValue("str", chars, <<>>, <<>>)
JArr(items) == JValue("arr", <<>>, items, <<>>)
JObj(keys, items) == JValue("obj", <<>>, items, keys)

ParseError == [ok |-> FALSE, val |-> JNull, next |-> 0]
Parsed(v, next) == [ok |-> TRUE, val |-> v, next |-> next]

RECURSIVE SkipWS(_, _)
SkipWS(s, i) == IF i <= Len(s) /\ s[i] \in WhiteSpace THEN SkipWS(s, i + 1) ELSE i

RECURSIVE ScanDigits(_, _)
ScanDigits(s, i) == IF i <= Len(s) /\ s[i] \in Digits THEN ScanDigits(s, i + 1) ELSE i

\* position of the quote closing a string whose text starts at i, 0 when
\* there is none (the texts of this model carry no escapes or control
\* characters; a backslash is refused)
RECURSIVE ScanString(_, _)
ScanString(s, i) ==
  IF i > Len(s) \/ s[i] \in {"\\", "\n", "\t", "\r"} THEN 0
  ELSE IF s[i] = "\"" THEN i
  ELSE ScanString(s, i + 1)

\* an integer: optional minus, then 0 or a digit run without leading zero
ParseNumber(s, i) ==
  LET d == IF s[i] = "-" THEN i + 1 ELSE i
      e == ScanDigits(s, d)
  IN IF e = d \/ (s[d] = "0" /\ e > d + 1)
       THEN ParseError
       ELSE Parsed(JNum(SubSeq(s, i, e - 1)), e)

RECURSIVE ParseValue(_, _), ParseElements(_, _, _), ParseMembers(_, _, _, _)

ParseValue(s, i0) ==
  LET i == SkipWS(s, i0) IN
  IF i > Len(s) THEN ParseError
  ELSE IF HasPrefixAt(s, i, Str_null) THEN Parsed(JNull, i + 4)
  ELSE IF HasPrefixAt(s, i, Str_true) THEN Parsed(JBool(TRUE), i + 4)
  ELSE IF HasPrefixAt(s, i, Str_false) THEN Parsed(JBool(FALSE), i + 5)
  ELSE IF s[i] = "\"" THEN
    LET q == ScanString(s, i + 1) IN
    IF q = 0 THEN ParseError ELSE Parsed(JStr(SubSeq(s, i + 1, q - 1)), q + 1)
  ELSE IF s[i] \in Digits \cup {"-"} THEN ParseNumber(s, i)
  ELSE IF s[i] = "[" THEN
    LET j == SkipWS(s, i + 1) IN
    IF j <= Len(s) /\ s[j] = "]" THEN Parsed(JArr(<<>>), j + 1)
    ELSE ParseElements(s, i + 1, <<>>)
  ELSE IF s[i] = "{" THEN
    LET j == SkipWS(s, i + 1) IN
    IF j <= Len(s) /\ s[j] = "}" THEN Parsed(JObj(<<>>, <<>>), j + 1)
    ELSE ParseMembers(s, i + 1, <<>>, <<>>)
  ELSE ParseError

ParseElements(s, i, acc) ==
  LET v == ParseValue(s, i) IN
  IF ~v.ok THEN ParseError ELSE
  LET j == SkipWS(s, v.next) IN
  IF j > Len(s) THEN ParseError
  ELSE IF s[j] = "," THEN ParseElements(s, j + 1, Append(acc, v.val))
  ELSE IF s[j] = "]" THEN Parsed(JArr(Append(acc, v.val)), j + 1)
  ELSE ParseError

ParseMembers(s, i, keys, vals) ==
  LET k == SkipWS(s, i) IN
  IF k > Len(s) \/ s[k] # "\"" THEN ParseError ELSE
  LET q == ScanString(s, k + 1) IN
  IF q = 0 THEN ParseError ELSE
  LET c == SkipWS(s, q + 1) IN
  IF c > Len(s) \/ s[c] # ":" THEN ParseError ELSE
  LET v == ParseValue(s, c + 1) IN
  IF ~v.ok THEN ParseError ELSE
  LET j == SkipWS(s, v.next)
      keys1 == Append(keys, SubSeq(s, k + 1, q - 1))
      vals1 == Append(vals, v.val)
  IN
  IF j > Len(s) THEN ParseError
  ELSE IF s[j] = "," THEN ParseMembers(s, j + 1, keys1, vals1)
  ELSE IF s[j] = "}" THEN Parsed(JObj(keys1, vals1), j + 1)
  ELSE ParseError

\* JSON.parse(text): ok is FALSE where JSON.parse throws
JSONparse(text) ==
  LET v == ParseValue(text, 1) IN
  IF v.ok /\ SkipWS(text, v.next) = Len(text) + 1 THEN v ELSE ParseError

\* key in value, for a value on which the in operator does not throw
HasKey(v, key) == v.t = "obj" /\ \E i \in 1..Len(v.keys) : v.keys[i] = key

\* value[key]: of a repeated member JSON.parse keeps the last
GetKey(v, key) ==
  v.items[CHOOSE i \in 1..Len(v.keys) :
            v.keys[i] = key /\ \A j \in 1..Len(v.keys) : v.keys[j] = key => j <= i]

\* String(value)
RECURSIVE StringOf(_), JoinItems(_, _)
StringOf(v) ==
  IF v.t = "obj" THEN Str_object
  ELSE IF v.t = "arr" THEN JoinItems(v.items, 1)
  ELSE v.chars

\* Array.prototype.join(","): null elements give the empty string
JoinItems(items, i) ==
  IF i > Len(items) THEN <<>>
  ELSE (IF items[i].t = "null" THEN <<>> ELSE StringOf(items[i]))
       \o (IF i < Len(items) THEN <<",">> ELSE <<>>)
       \o JoinItems(items, i + 1)

\* ------------------------------------------------------------ tool results
\* the texts a text content entry carries in this model
Txt_ErrorFile == <<"E", "r", "r", "o", "r", ":", " ", "f", "i", "l", "e", " ", "n", "o", "t", " ", "f", "o", "u", "n", "d">>
    \* Error: file not found
Txt_error == <<"e", "r", "r", "o", "r">>
    \* error
Txt_errorless == <<"e", "r", "r", "o", "r", "l", "e", "s", "s", " ", "r", "u", "n">>
    \* errorless run
Txt_Errors0 == <<"E", "r", "r", "o", "r", "s", ":", " ", "0">>
    \* Errors: 0
Txt_spaceError == <<" ", "e", "r", "r", "o", "r", ":", " ", "x">>
    \*  error: x   (leading blank)
Txt_NoError == <<"N", "o", " ", "e", "r", "r", "o", "r">>
    \* No error
Txt_ok == <<"o", "k">>
    \* ok
Txt_empty == <<>>
    \* the empty string
Txt_jsonStatusError == <<"{", "\"", "s", "t", "a", "t", "u", "s", "\"", ":", "\"", "e", "r", "r", "o", "r", "\"", "}">>
    \* {"status":"error"}
Txt_jsonStatusUpper == <<"{", "\"", "s", "t", "a", "t", "u", "s", "\"", ":", "\"", "E", "R", "R", "O", "R", "\"", "}">>
    \* {"status":"ERROR"}
Txt_jsonStatusSuccess == <<"{", "\"", "s", "t", "a", "t", "u", "s", "\"", ":", "\"", "s", "u", "c", "c", "e", "s", "s", "\"", "}">>
    \* {"status":"success"}
Txt_jsonSpaced == <<"{", " ", "\"", "a", "\"", ":", " ", "1", ",", " ", "\"", "s", "t", "a", "t", "u", "s", "\"", ":", " ", "\"", "E", "r", "r", "o", "r", "\"", " ", "}">>
    \* { "a": 1, "status": "Error" }
Txt_jsonTwice == <<"{", "\"", "s", "t", "a", "t", "u", "s", "\"", ":", "\"", "e", "r", "r", "o", "r", "\"", ",", "\"", "s", "t", "a", "t", "u", "s", "\"", ":", "\"", "o", "k", "\"", "}">>
    \* {"status":"error","status":"ok"}
Txt_jsonStatusArray == <<"{", "\"", "s", "t", "a", "t", "u", "s", "\"", ":", "[", "\"", "e", "r", "r", "o", "r", "\"", "]", "}">>
    \* {"status":["error"]}
Txt_jsonStatusNull == <<"{", "\"", "s", "t", "a", "t", "u", "s", "\"", ":", "n", "u", "l", "l", "}">>
    \* {"status":null}
Txt_jsonNested == <<"{", "\"", "a", "\"", ":", "{", "\"", "s", "t", "a", "t", "u", "s", "\"", ":", "\"", "e", "r", "r", "o", "r", "\"", "}", "}">>
    \* {"a":{"status":"error"}}
Txt_jsonEmptyObject == <<"{", "}">>
    \* {}
Txt_jsonArray == <<"[", "\"", "e", "r", "r", "o", "r", "\"", "]">>
    \* ["error"]
Txt_jsonNumber == <<"1", "2", "3">>
    \* 123
Txt_jsonNull == <<"n", "u", "l", "l">>
    \* null
Txt_jsonTrue == <<"t", "r", "u", "e">>
    \* true
Txt_jsonString == <<"\"", "e", "r", "r", "o", "r", "\"">>
    \* "error"
Txt_badUnclosed == <<"{", "\"", "s", "t", "a", "t", "u", "s", "\"", ":", "\"", "e", "r", "r", "o", "r", "\"">>
    \* {"status":"error"     (no closing brace)
Txt_badBareKey == <<"{", "s", "t", "a", "t", "u", "s", ":", "\"", "e", "r", "r", "o", "r", "\"", "}">>
    \* {status:"error"}
Txt_badErrorPrefix == <<"e", "r", "r", "o", "r", " ", "{", "\"", "s", "t", "a", "t", "u", "s", "\"", ":", "\"", "o", "k", "\"", "}">>
    \* error {"status":"ok"}

TextCases ==
  {Txt_ErrorFile, Txt_error, Txt_errorless, Txt_Errors0, Txt_spaceError,
   Txt_NoError, Txt_ok, Txt_empty,
   Txt_jsonStatusError, Txt_jsonStatusUpper, Txt_jsonStatusSuccess, Txt_jsonSpaced,
   Txt_jsonTwice, Txt_jsonStatusArray, Txt_jsonStatusNull, Txt_jsonNested,
   Txt_jsonEmptyObject, Txt_jsonArray, Txt_jsonNumber, Txt_jsonNull,
   Txt_jsonTrue, Txt_jsonString,
   Txt_badUnclosed, Txt_badBareKey, Txt_badErrorPrefix}

\* a content entry of a tool response
TextEntry(text) ==
  [type |-> "text", hasText |-> TRUE, text |-> text, hasData |-> FALSE, mimeType |-> <<>>]
TextEntryNoText ==
  [type |-> "text", hasText |-> FALSE, text |-> <<>>, hasData |-> FALSE, mimeType |-> <<>>]
ImageEntry ==
  [type |-> "image", hasText |-> FALSE, text |-> <<>>, hasData |-> TRUE, mimeType |-> <<"image/png">>]
ImageEntryNoMime ==
  [type |-> "image", hasText |-> FALSE, text |-> <<>>, hasData |-> TRUE, mimeType |-> <<>>]
ResourceEntry ==
  [type |-> "resource", hasText |-> FALSE, text |-> <<>>, hasData |-> FALSE, mimeType |-> <<>>]

FirstEntries ==
  {TextEntry(t) : t \in TextCases}
    \cup {TextEntryNoText, ImageEntry, ImageEntryNoMime, ResourceEntry}

\* a top-level status field of the response
NoStatus == [present |-> FALSE, val |-> JNull]
Status(v) == [present |-> TRUE, val |-> v]
StatusCases ==
  {NoStatus, Status(JStr(Str_error)), Status(JStr(Txt_ErrorFile)),
   Status(JStr(<<"E", "r", "r", "o", "r">>)), Status(JStr(Txt_ok))}

\* isError of the response: absent, false or true
Flags == {"none", "false", "true"}

\* the object client.callTool() resolves with
Response(flag, hasContent, content, status) ==
  [flag |-> flag, hasContent |-> hasContent, content |-> content, status |-> status]

NoResponse == Response("none", FALSE, <<>>, NoStatus)

ResponseCases ==
  {Response(f, TRUE, <<e>>, NoStatus) : f \in Flags, e \in FirstEntries}
    \cup {Response(f, TRUE, <<e1, e2>>, NoStatus) :
            f \in Flags,
            e1 \in {TextEntry(Txt_ok), TextEntry(Txt_jsonStatusSuccess)},
            e2 \in {TextEntry(Txt_ErrorFile), TextEntry(Txt_jsonStatusError), ImageEntry}}
    \cup {Response(f, hc, <<>>, st) : f \in Flags, hc \in BOOLEAN, st \in StatusCases}

\* JSON.stringify(result, null, 2), kept as its fragments
SerializeEntry(e) ==
  <<"{type:", e.type>>
    \o (IF e.hasText THEN <<",text:">> \o e.text ELSE <<>>)
    \o (IF e.hasData THEN <<",data:", "base64">> ELSE <<>>)
    \o (IF e.mimeType # <<>> THEN <<",mimeType:">> \o e.mimeType ELSE <<>>)
    \o <<"}">>

RECURSIVE SerializeContent(_, _)
SerializeContent(content, i) ==
  IF i > Len(content) THEN <<>>
  ELSE SerializeEntry(content[i]) \o SerializeContent(content, i + 1)

Serialize(resp) ==
  <<"{">>
    \o (IF resp.flag # "none" THEN <<"isError:", resp.flag>> ELSE <<>>)
    \o (IF resp.hasContent THEN <<",content:[">> \o SerializeContent(resp.content, 1) \o <<"]">>
        ELSE <<>>)
    \o (IF resp.status.present THEN <<",status:", resp.status.val.t>> \o StringOf(resp.status.val)
        ELSE <<>>)
    \o <<"}">>

\* the toolResult message posted to the webview; text, json and raw hold
\* its data according to contentType, at is the time since the call was
\* issued
NoResult ==
  [resultType |-> "none", contentType |-> "none", text |-> <<>>, json |-> JNull,
   raw |-> NoResponse, mimeType |-> <<>>, at |-> 0]

ToolResult(resultType, contentType) ==
  [NoResult EXCEPT !.resultType = resultType, !.contentType = contentType]

\* variant of Classify that takes the last entry of the content list
Classify_LastEntry(data) ==
  IF data.hasContent /\ Len(data.content) > 0
    THEN
      LET content == data.content[Len(data.content)]
          isError == data.flag = "true"
          flagged == IF isError THEN "failed" ELSE "success"
      IN
      IF content.type = "image" /\ content.hasData /\ content.mimeType # <<>>
        THEN [ToolResult(flagged, "image") EXCEPT !.mimeType = content.mimeType]
      ELSE IF content.type = "text" /\ content.hasText
        THEN
          LET parsed == JSONparse(content.text) IN
          \* the in operator throws on a value that is no object, and the
          \* catch of the parse takes that exception too
          IF parsed.ok /\ parsed.val.t \in {"obj", "arr"}
            THEN
              LET jsonData == parsed.val
                  failed == \/ isError
                            \/ /\ HasKey(jsonData, Str_status)
                               /\ toLowerCase(StringOf(GetKey(jsonData, Str_status))) = Str_error
              IN [ToolResult(IF failed THEN "failed" ELSE "success", "json")
                    EXCEPT !.json = jsonData]
            ELSE
              LET failed == isError \/ startsWith(toLowerCase(content.text), Str_error)
              IN [ToolResult(IF failed THEN "failed" ELSE "success", "text")
                    EXCEPT !.text = content.text]
      ELSE [ToolResult(flagged, "raw") EXCEPT !.raw = data]
    ELSE
      LET resultType ==
            IF data.status.present /\ toLowerCase(StringOf(data.status.val)) = Str_error
              THEN "failed" ELSE "success"
      IN [ToolResult(resultType, "raw") EXCEPT !.raw = data]

\* _handleExecuteTool lines 256-347: the message built from response.data
Classify(data) ==
  IF data.hasContent /\ Len(data.content) > 0
    THEN
      LET content == data.content[1]
          isError == data.flag = "true"
          flagged == IF isError THEN "failed" ELSE "success"
      IN
      IF content.type = "image" /\ content.hasData /\ content.mimeType # <<>>
        THEN [ToolResult(flagged, "image") EXCEPT !.mimeType = content.mimeType]
      ELSE IF content.type = "text" /\ content.hasText
        THEN
          LET parsed == JSONparse(content.text) IN
          \* the in operator throws on a value that is no object, and the
          \* catch of the parse takes that exception too
          IF parsed.ok /\ parsed.val.t \in {"obj", "arr"}
            THEN
              LET jsonData == parsed.val
                  failed == \/ isError
                            \/ /\ HasKey(jsonData, Str_status)
                               /\ toLowerCase(StringOf(GetKey(jsonData, Str_status))) = Str_error
              IN [ToolResult(IF failed THEN "failed" ELSE "success", "json")
                    EXCEPT !.json = jsonData]
            ELSE
              LET failed == isError \/ startsWith(toLowerCase(content.text), Str_error)
              IN [ToolResult(IF failed THEN "failed" ELSE "success", "text")
                    EXCEPT !.text = content.text]
      ELSE [ToolResult(flagged, "raw") EXCEPT !.raw = data]
    ELSE
      LET resultType ==
            IF data.status.present /\ toLowerCase(StringOf(data.status.val)) = Str_error
              THEN "failed" ELSE "success"
      IN [ToolResult(resultType, "raw") EXCEPT !.raw = data]

\* ------------------------------------------------- STDIO spawn options
\* stdioConfig.cwd: null or undefined, or a string (the empty one included)
NoCwd == [has |-> FALSE, dir |-> ""]
Dir(d) == [has |-> TRUE, dir |-> d]

StdioConfig(cmd, args, cwd) == [cmd |-> cmd, args |-> args, cwd |-> cwd]

Commands == {"uv", "python", "npx"}
ArgWords == {"--directory", "-d", "run", "server.py"}
ArgLists == UNION {[1..k -> ArgWords] : k \in 0..MaxArgs}
Cwds == {NoCwd, Dir(""), Dir("/srv/app")}
StdioConfigs == {StdioConfig(cmd, args, cwd) : cmd \in Commands, args \in ArgLists, cwd \in Cwds}

\* the stdioConfig of a call whose config is not looked at further
DefaultStdioConfig == StdioConfig("python", <<"server.py">>, NoCwd)

\* the options handed to new StdioClientTransport({command, args, cwd, ...})
NoSpawn == [command |-> "", args |-> <<>>, cwd |-> NoCwd]

\* Array.prototype.includes
includes(array, x) == \E i \in 1..Len(array) : array[i] = x

\* variant of SpawnOptions that adds the directory flag without looking
\* for one among the args
SpawnOptions_AlwaysInjects(stdioConfig) ==
  LET command == stdioConfig.cmd
      args == stdioConfig.args
      cwd == IF stdioConfig.cwd.has /\ stdioConfig.cwd.dir # "" THEN stdioConfig.cwd ELSE NoCwd
  IN
  IF command = "uv" /\ cwd.has
    THEN [command |-> command, args |-> <<"--directory", cwd.dir>> \o args, cwd |-> NoCwd]
    ELSE [command |-> command, args |-> args, cwd |-> cwd]

\* variant of SpawnOptions that keeps the working directory option for uv
SpawnOptions_KeepsCwd(stdioConfig) ==
  LET command == stdioConfig.cmd
      args == stdioConfig.args
      cwd == IF stdioConfig.cwd.has /\ stdioConfig.cwd.dir # "" THEN stdioConfig.cwd ELSE NoCwd
  IN
  IF command = "uv" /\ cwd.has
    THEN [command |-> command,
          args |-> IF ~includes(args, "--directory") /\ ~includes(args, "-d")
                     THEN <<"--directory", cwd.dir>> \o args ELSE args,
          cwd |-> cwd]
    ELSE [command |-> command, args |-> args, cwd |-> cwd]

\* lines 80-93: command, args and cwd as mcpConnect passes them on; a null
\* or empty cwd becomes undefined, and uv with a cwd gets the directory as
\* a flag instead
SpawnOptions(stdioConfig) ==
  LET command == stdioConfig.cmd
      args == stdioConfig.args
      cwd == IF stdioConfig.cwd.has /\ stdioConfig.cwd.dir # "" THEN stdioConfig.cwd ELSE NoCwd
  IN
  IF command = "uv" /\ cwd.has
    THEN [command |-> command,
          args |-> IF ~includes(args, "--directory") /\ ~includes(args, "-d")
                     THEN <<"--directory", cwd.dir>> \o args ELSE args,
          cwd |-> NoCwd]
    ELSE [command |-> command, args |-> args, cwd |-> cwd]

\* ------------------------------------------------------ tool parameters
\* A raw input schema: whether it has a properties object, the properties
\* in the order Object.entries yields them, each with its type field (if
\* any), and the required field: missing, something that is no array, or
\* an array of names.
PropNames == {"x", "y", "z"}
TypeWords == {"number", "integer", "boolean", "array", "object", "string", "null"}

Property(name, hasType, type) == [name |-> name, hasType |-> hasType, type |-> type]
PropertiesOf(name) ==
  {Property(name, TRUE, t) : t \in TypeWords} \cup {Property(name, FALSE, "")}

\* the property lists without a repeated name
PropertyLists ==
  UNION {{ps \in [1..k -> UNION {PropertiesOf(n) : n \in PropNames}] :
            \A i, j \in 1..k : i # j => ps[i].name # ps[j].name} : k \in 0..MaxProps}

Required(kind, items) == [kind |-> kind, items |-> items]
RequiredCases ==
  {Required("missing", <<>>), Required("notArray", <<>>), Required("array", <<>>),
   Required("array", <<"x">>), Required("array", <<"y">>), Required("array", <<"y", "x">>),
   Required("array", <<"z", "w">>)}

InputSchema(hasProperties, properties, required) ==
  [hasProperties |-> hasProperties, properties |-> properties, required |-> required]
InputSchemas ==
  {InputSchema(TRUE, ps, rq) : ps \in PropertyLists, rq \in RequiredCases}
    \cup {InputSchema(FALSE, <<>>, rq) : rq \in RequiredCases}

\* the input schema of a tool whose schema is not looked at further
DefaultInputSchema == InputSchema(TRUE, <<>>, Required("missing", <<>>))

\* variant of extractParametersFromSchema without the case 'integer'
extractParametersFromSchema_NoInteger(schema) ==
  IF ~schema.hasProperties THEN <<>>
  ELSE
    LET required == IF schema.required.kind = "array" THEN schema.required.items ELSE <<>>
    IN [i \in 1..Len(schema.properties) |->
          LET prop == schema.properties[i]
              isRequired == includes(required, prop.name)
              type == IF ~prop.hasType THEN "string"
                      ELSE IF prop.type = "number" THEN "number"
                      ELSE IF prop.type = "boolean" THEN "boolean"
                      ELSE IF prop.type = "array" THEN "array"
                      ELSE IF prop.type = "object" THEN "object"
                      ELSE "string"
          IN [name |-> prop.name, type |-> type, required |-> isRequired, description |-> ""]]

\* extractParametersFromSchema(schema, cleanToolDescription) for a tool and
\* properties without description: one ToolParameter per property
extractParametersFromSchema(schema) ==
  IF ~schema.hasProperties THEN <<>>
  ELSE
    LET required == IF schema.required.kind = "array" THEN schema.required.items ELSE <<>>
    IN [i \in 1..Len(schema.properties) |->
          LET prop == schema.properties[i]
              isRequired == includes(required, prop.name)
              type == IF ~prop.hasType THEN "string"
                      ELSE IF prop.type \in {"number", "integer"} THEN "number"
                      ELSE IF prop.type = "boolean" THEN "boolean"
                      ELSE IF prop.type = "array" THEN "array"
                      ELSE IF prop.type = "object" THEN "object"
                      ELSE "string"
          IN [name |-> prop.name, type |-> type, required |-> isRequired, description |-> ""]]

\* ---------------------------------------------------------------- calls
IdleCall ==
  [op |-> "none", pc |-> "idle", fn |-> "none", name |-> "A", kind |-> "stdio",
   client |-> 0, err1 |-> NoError, ret |-> Ok,
   registered |-> FALSE, attempts |-> <<>>, emitted |-> <<>>, obs |-> FALSE,
   stdioConfig |-> DefaultStdioConfig, spawn |-> NoSpawn,
   inputSchema |-> DefaultInputSchema, read |-> <<>>,
   raised |-> <<>>, isNew |-> FALSE, oldName |-> "", saved |-> Ok, result |-> "none", was |-> 0,
   listed |-> "none", resp |-> NoResponse, elapsed |-> 0, wake |-> 0, out |-> NoResult, delivered |-> FALSE]

Free(c) == calls[c].pc \in {"idle", "done"}

\* The record of call r after function fn returned result: the top-level
\* function of the call is finished, an inner one hands its result to the
\* continuation of its caller.
\* reg is the registry as the step leaves it; obs is what
\* mcpIsServerConnected(name) answers to the caller right after the return.
Finished(r, reg) == [r EXCEPT !.pc = "done", !.obs = mcpIsServerConnected(reg, r.name)]

Returned(r, fn, result, reg) ==
  LET r1 == [r EXCEPT !.fn = fn, !.ret = result] IN
  IF r.op = fn THEN Finished(r1, reg) ELSE [r1 EXCEPT !.pc = "ret"]

\* The record of a finished call is what its caller sees at the return; the
\* next step of the program frees the slot.
Put(c, r) ==
  [d \in Slots |-> IF d = c THEN r
                   ELSE IF calls[d].pc = "done" THEN IdleCall ELSE calls[d]]

\* the call records once the finished ones are collected
Sweep == [d \in Slots |-> IF calls[d].pc = "done" THEN IdleCall ELSE calls[d]]

\* the call once a collaborator of it has failed with msg
Raise(r, msg) == [r EXCEPT !.raised = Append(@, msg)]

Emit(r, message, isError) ==
  [r EXCEPT !.emitted = Append(@, [message |-> message, isError |-> isError])]

Init ==
  /\ activeClients = [n \in Names |-> 0]
  /\ sessions = <<>>
  /\ logs = [n \in Names |-> <<>>]
  /\ servers = <<>>
  /\ calls = [c \in Slots |-> IdleCall]
  /\ issued = 0

\* JSON.stringify of a failure ApiResponse, kept as its fragments
Stringify(resp) == <<"{success:false,error:">> \o resp.error \o <<"}">>

\* messages a rejected spawn / handshake may carry (a timeout is one of them)
SpawnErrors == {"spawn ENOENT"}
StdioErrors == {"Request timed out"}
StreamableErrors == {"HTTP 404"}
SSEErrors == {"SSE error: refused"}

\* -------------------------------------------------------------- mcpConnect
\* the outer catch block of mcpConnect
\* variant of ConnectOuterCatch that also drops the entry of the name
ConnectOuterCatch_DropsEntry(c, r, msg) ==
  LET response == Fail(<<msg>>) IN
  /\ logs' = addLog(logs, r.name, "Connection failed", Stringify(response), TRUE)
  /\ calls' = Put(c, Returned(Emit(Raise(r, msg), "Connection failed", TRUE), "mcpConnect", response,
                              [activeClients EXCEPT ![r.name] = 0]))
  /\ activeClients' = [activeClients EXCEPT ![r.name] = 0]
  /\ UNCHANGED sessions

ConnectOuterCatch(c, r, msg) ==
  LET response == Fail(<<msg>>) IN
  /\ logs' = addLog(logs, r.name, "Connection failed", Stringify(response), TRUE)
  /\ calls' = Put(c, Returned(Emit(Raise(r, msg), "Connection failed", TRUE), "mcpConnect", response, activeClients))
  /\ UNCHANGED <<activeClients, sessions>>

\* lines 250-269: store the connected client, log for STDIO, return success.
\* lg is the log as the transport branch left it.
ConnectRegister(c, r, lg) ==
  LET sid == Len(sessions) + 1
      r1 == [r EXCEPT !.client = sid, !.registered = TRUE]
  IN
  /\ sessions' = Append(sessions, NewSession(r.name))
  /\ activeClients' = [activeClients EXCEPT ![r.name] = sid]
  /\ IF r.kind = "stdio"
       THEN /\ logs' = addLog(lg, r.name, "Connected (STDIO)", <<>>, FALSE)
            /\ calls' = Put(c, Returned(Emit(r1, "Connected (STDIO)", FALSE), "mcpConnect", Ok, [activeClients EXCEPT ![r.name] = sid]))
       ELSE /\ logs' = lg
            /\ calls' = Put(c, Returned(r1, "mcpConnect", Ok, [activeClients EXCEPT ![r.name] = sid]))

\* the synchronous prefix of mcpConnect(config), up to its first await
\* variant of ConnectEnter that tries the HTTP handshakes for any other
\* transport type
ConnectEnter_OtherAsHttp(c, r) ==
  CASE r.kind = "stdioNoCfg" ->
         /\ calls' = Put(c, Returned(r, "mcpConnect", Fail(<<"STDIO configuration is missing">>), activeClients))
         /\ UNCHANGED <<activeClients, sessions, logs>>
    [] r.kind = "stdio" ->
         /\ calls' = Put(c, [r EXCEPT !.pc = "spawn", !.fn = "mcpConnect",
                                      !.spawn = SpawnOptions(r.stdioConfig)])
         /\ UNCHANGED <<activeClients, sessions, logs>>
    [] r.kind = "httpNoUrl" ->
         /\ calls' = Put(c, Returned(r, "mcpConnect",
                        Fail(<<"HTTP (SSE/StreamableHTTP) configuration must include a URL">>), activeClients))
         /\ UNCHANGED <<activeClients, sessions, logs>>
    [] r.kind = "httpBadUrl" -> ConnectOuterCatch(c, r, "Invalid URL")
    [] r.kind \in {"http", "httpBadPath"} ->
         /\ calls' = Put(c, [r EXCEPT !.pc = "http1", !.fn = "mcpConnect"])
         /\ UNCHANGED <<activeClients, sessions, logs>>
    [] OTHER ->
         /\ calls' = Put(c, [r EXCEPT !.pc = "http1", !.fn = "mcpConnect"])
         /\ UNCHANGED <<activeClients, sessions, logs>>

ConnectEnter(c, r) ==
  CASE r.kind = "stdioNoCfg" ->
         /\ calls' = Put(c, Returned(r, "mcpConnect", Fail(<<"STDIO configuration is missing">>), activeClients))
         /\ UNCHANGED <<activeClients, sessions, logs>>
    [] r.kind = "stdio" ->
         /\ calls' = Put(c, [r EXCEPT !.pc = "spawn", !.fn = "mcpConnect",
                                      !.spawn = SpawnOptions(r.stdioConfig)])
         /\ UNCHANGED <<activeClients, sessions, logs>>
    [] r.kind = "httpNoUrl" ->
         /\ calls' = Put(c, Returned(r, "mcpConnect",
                        Fail(<<"HTTP (SSE/StreamableHTTP) configuration must include a URL">>), activeClients))
         /\ UNCHANGED <<activeClients, sessions, logs>>
    [] r.kind = "httpBadUrl" -> ConnectOuterCatch(c, r, "Invalid URL")
    [] r.kind \in {"http", "httpBadPath"} ->
         /\ calls' = Put(c, [r EXCEPT !.pc = "http1", !.fn = "mcpConnect"])
         /\ UNCHANGED <<activeClients, sessions, logs>>
    [] OTHER ->
         /\ calls' = Put(c, Returned(r, "mcpConnect", Fail(<<"Unsupported transport type: ", r.kind>>), activeClients))
         /\ UNCHANGED <<activeClients, sessions, logs>>

\* await stdioTransport.start() settles
\* variant of ConnectSpawned that stores an entry for the name as soon as the
\* process runs, before the handshake
ConnectSpawned_RegistersEarly(c) ==
  /\ calls[c].pc = "spawn"
  /\ \/ /\ calls' = Put(c, [calls[c] EXCEPT !.pc = "handshake"])
        /\ activeClients' = [activeClients EXCEPT ![calls[c].name] = Len(sessions) + 1]
        /\ UNCHANGED <<sessions, logs>>
     \/ \E msg \in SpawnErrors : ConnectOuterCatch(c, calls[c], msg)
  /\ UNCHANGED <<servers, issued>>

ConnectSpawned(c) ==
  /\ calls[c].pc = "spawn"
  /\ \/ /\ calls' = Put(c, [calls[c] EXCEPT !.pc = "handshake"])
        /\ UNCHANGED <<activeClients, sessions, logs>>
     \/ \E msg \in SpawnErrors : ConnectOuterCatch(c, calls[c], msg)
  /\ UNCHANGED <<servers, issued>>

\* variant of ConnectStdioHandshake without a catch block around the
\* handshake: its rejection leaves mcpConnect as an exception
ConnectStdioHandshake_Rethrows(c) ==
  /\ calls[c].pc = "handshake"
  /\ \/ ConnectRegister(c, [calls[c] EXCEPT !.attempts = Append(@, [proto |-> "stdio", ok |-> TRUE])], logs)
     \/ \E msg \in StdioErrors :
          /\ calls' = Put(c, [Raise(calls[c], msg) EXCEPT
                                !.attempts = Append(@, [proto |-> "stdio", ok |-> FALSE]),
                                !.pc = "threw"])
          /\ UNCHANGED <<activeClients, sessions, logs>>
  /\ UNCHANGED <<servers, issued>>

\* await client.connect(stdioTransport, {timeout}) settles
ConnectStdioHandshake(c) ==
  /\ calls[c].pc = "handshake"
  /\ \/ ConnectRegister(c, [calls[c] EXCEPT !.attempts = Append(@, [proto |-> "stdio", ok |-> TRUE])], logs)
     \/ \E msg \in StdioErrors :
          ConnectOuterCatch(c, [calls[c] EXCEPT !.attempts = Append(@, [proto |-> "stdio", ok |-> FALSE])], msg)
  /\ UNCHANGED <<servers, issued>>

\* attempt 1: await client.connect(streamableTransport, {timeout}) settles
\* variant of ConnectStreamable whose handshake has no timeout and, the
\* server staying silent, never settles
ConnectStreamable_NoTimeout(c) ==
  /\ calls[c].pc = "http1"
  /\ UNCHANGED vars

\* variant of ConnectStreamable whose catch block does not log the failure
ConnectStreamable_SilentFailure(c) ==
  /\ calls[c].pc = "http1"
  /\ \/ LET r == [calls[c] EXCEPT !.attempts = Append(@, [proto |-> "streamable", ok |-> TRUE])] IN
          ConnectRegister(c, Emit(r, "Connected (StreamableHTTP)", FALSE),
                          addLog(logs, r.name, "Connected (StreamableHTTP)", <<>>, FALSE))
     \/ \E msg \in StreamableErrors :
          LET r == Raise([calls[c] EXCEPT !.attempts = Append(@, [proto |-> "streamable", ok |-> FALSE])], msg) IN
          /\ logs' = logs
          /\ calls' = Put(c, [r EXCEPT !.pc = "http2", !.err1 = <<msg>>])
          /\ UNCHANGED <<activeClients, sessions>>
  /\ UNCHANGED <<servers, issued>>

ConnectStreamable(c) ==
  /\ calls[c].pc = "http1"
  /\ \/ LET r == [calls[c] EXCEPT !.attempts = Append(@, [proto |-> "streamable", ok |-> TRUE])] IN
          ConnectRegister(c, Emit(r, "Connected (StreamableHTTP)", FALSE),
                          addLog(logs, r.name, "Connected (StreamableHTTP)", <<>>, FALSE))
     \/ \E msg \in StreamableErrors :
          LET r == Raise([calls[c] EXCEPT !.attempts = Append(@, [proto |-> "streamable", ok |-> FALSE])], msg) IN
          /\ logs' = addLog(logs, r.name, "StreamableHTTP connection failed", <<msg>>, TRUE)
          /\ calls' = Put(c, [Emit(r, "StreamableHTTP connection failed", TRUE)
                   EXCEPT !.pc = "http2", !.err1 = <<msg>>])
          /\ UNCHANGED <<activeClients, sessions>>
  /\ UNCHANGED <<servers, issued>>

\* variant of CombinedError that reports the SSE failure only
CombinedError_SSEOnly(streamableErrorMessage, sseErrorMessage) ==
  <<"Failed to connect. SSE Fallback Error: ">> \o sseErrorMessage

CombinedError(streamableErrorMessage, sseErrorMessage) ==
  <<"Failed to connect. StreamableHTTP Error: ">> \o streamableErrorMessage
     \o <<". SSE Fallback Error: ">> \o sseErrorMessage

\* variant of ConnectSSE that tries the SSE handshake once more after a
\* failure
ConnectSSE_RetriesOnce(c) ==
  /\ calls[c].pc = "http2"
  /\ \/ LET r == [calls[c] EXCEPT !.attempts = Append(@, [proto |-> "sse", ok |-> TRUE])] IN
          ConnectRegister(c, Emit(r, "Connected (SSE Fallback)", FALSE),
                          addLog(logs, r.name, "Connected (SSE Fallback)", <<>>, FALSE))
     \/ \E msg \in SSEErrors :
          LET r == Raise([calls[c] EXCEPT !.attempts = Append(@, [proto |-> "sse", ok |-> FALSE])], msg)
              combinedError == CombinedError(r.err1, <<msg>>)
          IN
          /\ logs' = addLog(logs, r.name, "Connection failed (SSE Fallback)", combinedError, TRUE)
          /\ IF Len(r.attempts) < 3
               THEN calls' = Put(c, Emit(r, "Connection failed (SSE Fallback)", TRUE))
               ELSE calls' = Put(c, Returned(Emit(r, "Connection failed (SSE Fallback)", TRUE),
                                             "mcpConnect", Fail(combinedError), activeClients))
          /\ UNCHANGED <<activeClients, sessions>>
  /\ UNCHANGED <<servers, issued>>

\* attempt 2: await client.connect(sseTransport, {timeout}) settles
ConnectSSE(c) ==
  /\ calls[c].pc = "http2"
  /\ \/ LET r == [calls[c] EXCEPT !.attempts = Append(@, [proto |-> "sse", ok |-> TRUE])] IN
          ConnectRegister(c, Emit(r, "Connected (SSE Fallback)", FALSE),
                          addLog(logs, r.name, "Connected (SSE Fallback)", <<>>, FALSE))
     \/ \E msg \in SSEErrors :
          LET r == Raise([calls[c] EXCEPT !.attempts = Append(@, [proto |-> "sse", ok |-> FALSE])], msg)
              combinedError == CombinedError(r.err1, <<msg>>)
          IN
          /\ logs' = addLog(logs, r.name, "Connection failed (SSE Fallback)", combinedError, TRUE)
          /\ calls' = Put(c, Returned(Emit(r, "Connection failed (SSE Fallback)", TRUE),
                         "mcpConnect", Fail(combinedError), activeClients))
          /\ UNCHANGED <<activeClients, sessions>>
  /\ UNCHANGED <<servers, issued>>

\* ----------------------------------------------------------- mcpDisconnect
\* synchronous prefix: look the client up, start closing it
DisconnectEnter(c, r) ==
  LET client == activeClients[r.name] IN
  /\ IF client = 0
       THEN calls' = Put(c, Returned(r, "mcpDisconnect", Fail(<<"No active connection for server: ", r.name>>), activeClients))
       ELSE calls' = Put(c, [r EXCEPT !.pc = "close", !.fn = "mcpDisconnect", !.client = client])
  /\ UNCHANGED <<activeClients, sessions, logs>>

CloseErrors == {"close failed"}

\* await client.close() resolved: log, delete the key, return success
\* variant of DisconnectClosed that omits "delete activeClients[serverName]"
DisconnectClosed_KeepEntry(c) ==
  LET r == calls[c] IN
  /\ r.pc = "close"
  /\ sessions' = [sessions EXCEPT ![r.client].st = "closed"]
  /\ logs' = addLog(logs, r.name, "Disconnected", <<>>, FALSE)
  /\ activeClients' = activeClients
  /\ calls' = Put(c, Returned(Emit(r, "Disconnected", FALSE), "mcpDisconnect", Ok, activeClients))
  /\ UNCHANGED <<servers, issued>>

DisconnectClosed(c) ==
  LET r == calls[c] IN
  /\ r.pc = "close"
  /\ sessions' = [sessions EXCEPT ![r.client].st = "closed"]
  /\ logs' = addLog(logs, r.name, "Disconnected", <<>>, FALSE)
  /\ activeClients' = [activeClients EXCEPT ![r.name] = 0]
  /\ calls' = Put(c, Returned(Emit(r, "Disconnected", FALSE), "mcpDisconnect", Ok, [activeClients EXCEPT ![r.name] = 0]))
  /\ UNCHANGED <<servers, issued>>

\* await client.close() rejected: the catch block
\* variant of DisconnectCloseFailed that removes the entry all the same
DisconnectCloseFailed_DropsEntry(c) ==
  LET r == calls[c] IN
  /\ r.pc = "close"
  /\ \E msg \in CloseErrors :
       LET response == Fail(<<msg>>) IN
       /\ logs' = addLog(logs, r.name, "Disconnect failed", Stringify(response), TRUE)
       /\ calls' = Put(c, Returned(Emit(Raise(r, msg), "Disconnect failed", TRUE), "mcpDisconnect", response,
                                   [activeClients EXCEPT ![r.name] = 0]))
  /\ activeClients' = [activeClients EXCEPT ![r.name] = 0]
  /\ UNCHANGED <<sessions, servers, issued>>

DisconnectCloseFailed(c) ==
  LET r == calls[c] IN
  /\ r.pc = "close"
  /\ \E msg \in CloseErrors :
       LET response == Fail(<<msg>>) IN
       /\ logs' = addLog(logs, r.name, "Disconnect failed", Stringify(response), TRUE)
       /\ calls' = Put(c, Returned(Emit(Raise(r, msg), "Disconnect failed", TRUE), "mcpDisconnect", response, activeClients))
  /\ UNCHANGED <<activeClients, sessions, servers, issued>>

\* ------------------------------------------------------------- mcpGetTools
\* what client.listTools() may settle with: a rejection, no result at all,
\* a result without a tools field, with an empty list, or with tools
ListToolsErrors == {"listTools rejected"}
ListToolsResults == {"null", "missing", "empty", "tools"}

\* the Tool[] built from a result (line 354-391): [] when the list is
\* missing or empty, one Tool per raw tool otherwise
ToolsOf(result, inputSchema) ==
  IF result = "tools"
    THEN <<[name |-> "tool1", parameters |-> extractParametersFromSchema(inputSchema)]>>
    ELSE <<>>

\* synchronous prefix: look the client up, call listTools
GetToolsEnter(c, r) ==
  LET client == activeClients[r.name] IN
  /\ IF client = 0
       THEN calls' = Put(c, Returned(r, "mcpGetTools", Fail(<<"No active connection for server: ", r.name>>), activeClients))
       ELSE calls' = Put(c, [r EXCEPT !.pc = "listTools", !.fn = "mcpGetTools", !.client = client])
  /\ UNCHANGED <<activeClients, sessions, logs>>

\* await client.listTools() resolved
GetToolsListed(c) ==
  LET r == calls[c] IN
  /\ r.pc = "listTools"
  /\ \E result \in ListToolsResults :
       IF result = "null"
         THEN /\ calls' = Put(c, Returned([r EXCEPT !.listed = result], "mcpGetTools",
                            Fail(<<"Error listTools: Received no result from server">>), activeClients))
              /\ UNCHANGED logs
         ELSE /\ logs' = addLog(logs, r.name, "ListTools", <<result>>, FALSE)
              /\ calls' = Put(c, Returned(Emit([r EXCEPT !.listed = result], "ListTools", FALSE),
                                          "mcpGetTools", OkData(ToolsOf(result, r.inputSchema)), activeClients))
  /\ UNCHANGED <<activeClients, sessions, servers, issued>>

\* variant of GetToolsFailed that drops the registry entry of a server
\* whose tool fetch failed
GetToolsFailed_DropsEntry(c) ==
  LET r == calls[c] IN
  /\ r.pc = "listTools"
  /\ \E msg \in ListToolsErrors :
       LET response == Fail(<<msg>>) IN
       /\ logs' = addLog(logs, r.name, "ListTools failed", Stringify(response), TRUE)
       /\ activeClients' = [activeClients EXCEPT ![r.name] = 0]
       /\ calls' = Put(c, Returned(Emit(Raise(r, msg), "ListTools failed", TRUE), "mcpGetTools", response, activeClients'))
  /\ UNCHANGED <<sessions, servers, issued>>

\* await client.listTools() rejected: the catch block
GetToolsFailed(c) ==
  LET r == calls[c] IN
  /\ r.pc = "listTools"
  /\ \E msg \in ListToolsErrors :
       LET response == Fail(<<msg>>) IN
       /\ logs' = addLog(logs, r.name, "ListTools failed", Stringify(response), TRUE)
       /\ calls' = Put(c, Returned(Emit(Raise(r, msg), "ListTools failed", TRUE), "mcpGetTools", response, activeClients))
  /\ UNCHANGED <<activeClients, sessions, servers, issued>>

\* ------------------------------------------------------------ getToolsList
\* the tool fetch of the server forms (serverConfigForm, serverDetailWebview)
\* synchronous prefix: look the client up, call listTools
GetToolsListEnter(c, r) ==
  LET client == activeClients[r.name] IN
  /\ IF client = 0
       THEN calls' = Put(c, Returned(r, "getToolsList", Fail(<<"No active connection for server: ", r.name>>), activeClients))
       ELSE calls' = Put(c, [r EXCEPT !.pc = "listToolsForm", !.fn = "getToolsList", !.client = client])
  /\ UNCHANGED <<activeClients, sessions, logs>>

\* await client.listTools() resolved
GetToolsListListed(c) ==
  LET r == calls[c] IN
  /\ r.pc = "listToolsForm"
  /\ \E result \in ListToolsResults :
       LET r1 == [r EXCEPT !.listed = result] IN
       IF result \in {"null", "missing", "empty"}
         THEN calls' = Put(c, Returned(r1, "getToolsList", Fail(<<"No tools found">>), activeClients))
         ELSE calls' = Put(c, Returned(r1, "getToolsList", OkData(ToolsOf(result, r.inputSchema)), activeClients))
  /\ UNCHANGED <<activeClients, sessions, logs, servers, issued>>

\* await client.listTools() rejected: the catch block
GetToolsListFailed(c) ==
  LET r == calls[c] IN
  /\ r.pc = "listToolsForm"
  /\ \E msg \in ListToolsErrors :
       calls' = Put(c, Returned(Raise(r, msg), "getToolsList", Fail(<<msg>>), activeClients))
  /\ UNCHANGED <<activeClients, sessions, logs, servers, issued>>

\* JavaScript truthiness of ApiResponse.data: undefined is falsy, any
\* array (the empty one too) is truthy
Truthy(resp) == resp.hasData

\* ---------------------------------------------------------- config store
\* servers.some(s => s.name === name)
Stored(list, name) == \E i \in 1..Len(list) : list[i].name = name

\* servers.findIndex(s => s.name === name), counted from 1; 0 stands for -1
findIndex(list, name) ==
  IF Stored(list, name)
    THEN CHOOSE i \in 1..Len(list) :
           /\ list[i].name = name
           /\ \A j \in 1..(i - 1) : list[j].name # name
    ELSE 0

\* an oldName that was not passed (undefined)
NoName == ""

AlreadyExists(name) == <<"A server with the name already exists", name>>
NotFound(name) == <<"Server not found", name>>

\* what a storage function leaves: its response and the stored list
Stores(response, list) == [response |-> response, servers |-> list]

\* variant of storageServerAdd without the check of the name
storageServerAdd_NoDuplicateCheck(list, schema) ==
  Stores(Ok, Append(list, schema))

\* storageServerAdd: reject a duplicate name, else push
storageServerAdd(list, schema) ==
  IF Stored(list, schema.name)
    THEN Stores(Fail(AlreadyExists(schema.name)), list)
    ELSE Stores(Ok, Append(list, schema))

\* variant of storageUpdateServer without the check of the new name
storageUpdateServer_NoCollisionCheck(list, schema, oldName) ==
  LET serverIndex == IF oldName # NoName THEN findIndex(list, oldName)
                                         ELSE findIndex(list, schema.name)
  IN IF serverIndex = 0
       THEN Stores(Fail(NotFound(IF oldName # NoName THEN oldName ELSE schema.name)), list)
       ELSE Stores(Ok, [list EXCEPT ![serverIndex] = schema])

\* storageUpdateServer(context, schema, oldName?): reject a rename to a
\* stored name, fail when the server to update is not stored, else replace
\* it
storageUpdateServer(list, schema, oldName) ==
  IF oldName # NoName /\ oldName # schema.name /\ Stored(list, schema.name)
    THEN Stores(Fail(AlreadyExists(schema.name)), list)
    ELSE
      LET serverIndex == IF oldName # NoName THEN findIndex(list, oldName)
                                             ELSE findIndex(list, schema.name)
      IN IF serverIndex = 0
           THEN Stores(Fail(NotFound(IF oldName # NoName THEN oldName ELSE schema.name)), list)
           ELSE Stores(Ok, [list EXCEPT ![serverIndex] = schema])

\* storageDeleteServer: splice the server out, fail when it is not stored
storageDeleteServer(list, name) ==
  LET serverIndex == findIndex(list, name)
  IN IF serverIndex = 0
       THEN Stores(Fail(NotFound(name)), list)
       ELSE Stores(Ok, [i \in 1..(Len(list) - 1) |->
                          IF i < serverIndex THEN list[i] ELSE list[i + 1]])

Schema(r) == [name |-> r.name, kind |-> r.kind, tools |-> r.ret.data]

\* ------------------------------------------------ mcpConnectAndBuildSchema
\* resumes after await mcpConnect(server)
BuildAfterConnect(c) ==
  LET r == calls[c] IN
  /\ r.op = "mcpConnectAndBuildSchema" /\ r.pc = "ret" /\ r.fn = "mcpConnect"
  /\ IF ~r.ret.success
       THEN /\ calls' = Put(c, Finished(r, activeClients))
            /\ UNCHANGED <<activeClients, sessions, logs>>
       ELSE GetToolsEnter(c, r)
  /\ UNCHANGED <<servers, issued>>

\* resumes after await mcpGetTools(server.name)
BuildAfterGetTools(c) ==
  LET r == calls[c] IN
  /\ r.op = "mcpConnectAndBuildSchema" /\ r.pc = "ret" /\ r.fn = "mcpGetTools"
  /\ IF ~r.ret.success \/ ~Truthy(r.ret)
       THEN DisconnectEnter(c, r)
       ELSE /\ calls' = Put(c, [calls[c] EXCEPT !.pc = "save"])
            /\ UNCHANGED <<activeClients, sessions, logs>>
  /\ UNCHANGED <<servers, issued>>

\* resumes after await mcpDisconnect(server.name), in
\* mcpConnectAndBuildSchema and in the MCPConnect command alike: the error
\* is shown and the call is over
AfterDisconnect(c) ==
  LET r == calls[c] IN
  /\ r.op \in {"mcpConnectAndBuildSchema", "MCPConnectCommand"}
  /\ r.pc = "ret" /\ r.fn = "mcpDisconnect"
  /\ calls' = Put(c, Finished(r, activeClients))
  /\ UNCHANGED <<activeClients, sessions, logs, servers, issued>>

\* the command mcp4humans.storageAddServer
StorageAddServerCommand(list, schema) == storageServerAdd(list, schema)

\* the command mcp4humans.storageUpdateServer: its handler takes the schema
\* alone and calls storageUpdateServer(context, schema)
StorageUpdateServerCommand(list, schema) == storageUpdateServer(list, schema, NoName)

\* vscStorageAddServer / vscStorageUpdateServer, then return the schema.
\* isNew is the caller's argument; nothing before this point reads it.
\* originalName is the name the form was opened with, which the form passes
\* as a third argument that mcpConnectAndBuildSchema does not take. The
\* response of the storage command is shown, not returned.
BuildSave(c) ==
  LET r == calls[c] IN
  /\ r.op = "mcpConnectAndBuildSchema" /\ r.pc = "save"
  /\ \E isNew \in BOOLEAN, originalName \in Names :
       LET saved == IF isNew THEN StorageAddServerCommand(servers, Schema(r))
                             ELSE StorageUpdateServerCommand(servers, Schema(r))
       IN /\ servers' = saved.servers
          /\ calls' = Put(c, Finished([r EXCEPT !.isNew = isNew, !.oldName = originalName,
                                                !.saved = saved.response,
                                                !.result = "schema"],
                                      activeClients))
  /\ UNCHANGED <<activeClients, sessions, logs, issued>>

\* --------------------------------- MCPConnect command (src/commands.ts)
\* resumes after await mcpConnect(server)
CommandAfterConnect(c) ==
  LET r == calls[c] IN
  /\ r.op = "MCPConnectCommand" /\ r.pc = "ret" /\ r.fn = "mcpConnect"
  /\ IF ~r.ret.success
       THEN /\ calls' = Put(c, Finished(r, activeClients))
            /\ UNCHANGED <<activeClients, sessions, logs>>
       ELSE GetToolsEnter(c, r)
  /\ UNCHANGED <<servers, issued>>

\* resumes after await mcpGetTools(server.name); the else branch saves the
\* schema with vscStorageSaveServer(schema, false)
CommandAfterGetTools(c) ==
  LET r == calls[c] IN
  /\ r.op = "MCPConnectCommand" /\ r.pc = "ret" /\ r.fn = "mcpGetTools"
  /\ IF ~r.ret.success /\ Truthy(r.ret)
       THEN /\ DisconnectEnter(c, r)
            /\ UNCHANGED servers
       ELSE /\ servers' = storageUpdateServer(servers, Schema(r), NoName).servers
            /\ calls' = Put(c, Finished(r, activeClients))
            /\ UNCHANGED <<activeClients, sessions, logs>>
  /\ UNCHANGED issued


\* -------------------------------------------------------------- mcpCallTool
CallToolErrors == {"Connection closed"}

\* variant of CallToolEnter that calls the tool without looking the client up
CallToolEnter_NoLookup(c, r) ==
  LET client == activeClients[r.name] IN
  /\ logs' = addLog(logs, r.name, "Tool Request", <<"tool1">>, FALSE)
  /\ calls' = Put(c, [Emit(r, "Tool Request", FALSE)
                        EXCEPT !.pc = "callTool", !.fn = "mcpCallTool", !.client = client])
  /\ UNCHANGED <<activeClients, sessions>>

\* synchronous prefix: look the client up, log the request, call the tool
CallToolEnter(c, r) ==
  LET client == activeClients[r.name] IN
  /\ IF client = 0
       THEN /\ calls' = Put(c, Returned(r, "mcpCallTool",
                           Fail(<<"No active connection for server: ", r.name>>), activeClients))
            /\ UNCHANGED logs
       ELSE /\ logs' = addLog(logs, r.name, "Tool Request", <<"tool1">>, FALSE)
            /\ calls' = Put(c, [Emit(r, "Tool Request", FALSE)
                                  EXCEPT !.pc = "callTool", !.fn = "mcpCallTool", !.client = client])
  /\ UNCHANGED <<activeClients, sessions>>

\* the responses a tool gives: to the server view every one of
\* ResponseCases; to a direct call of mcpCallTool, which reads of a response
\* its isError alone, one with the flag and one without
DirectResponses ==
  {Response(f, TRUE, <<TextEntry(Txt_ok)>>, NoStatus) : f \in {"true", "none"}}

ResponsesTo(r) == IF r.op = "mcpCallTool" THEN DirectResponses ELSE ResponseCases

\* await client.callTool() resolved with a response
CallToolResolved(c) ==
  LET r == calls[c] IN
  /\ r.pc = "callTool"
  /\ \E result \in ResponsesTo(r) :
       LET isError == result.flag = "true"
           r1 == [Emit(r, "Tool Response", isError) EXCEPT !.resp = result]
       IN
       /\ logs' = addLog(logs, r.name, "Tool Response", Serialize(result), isError)
       /\ IF isError
            THEN calls' = Put(c, Returned(r1, "mcpCallTool",
                   [Fail(<<"Tool execution resulted in an error: ", "Unknown tool error">>)
                      EXCEPT !.hasData = TRUE], activeClients))
            ELSE calls' = Put(c, Returned(r1, "mcpCallTool", OkData(<<>>), activeClients))
  /\ UNCHANGED <<activeClients, sessions, servers, issued>>

\* variant of CallToolRejected that takes a rejected call for the end of
\* every connection and empties the registry
CallToolRejected_ResetsRegistry(c) ==
  LET r == calls[c] IN
  /\ r.pc = "callTool"
  /\ \E msg \in CallToolErrors :
       LET response == Fail(<<msg>>) IN
       /\ logs' = addLog(logs, r.name, "Tool failed", Stringify(response), TRUE)
       /\ activeClients' = [n \in Names |-> 0]
       /\ calls' = Put(c, Returned(Emit(Raise(r, msg), "Tool failed", TRUE), "mcpCallTool", response,
                                   activeClients'))
  /\ UNCHANGED <<sessions, servers, issued>>

\* await client.callTool() rejected: the catch block
CallToolRejected(c) ==
  LET r == calls[c] IN
  /\ r.pc = "callTool"
  /\ \E msg \in CallToolErrors :
       LET response == Fail(<<msg>>) IN
       /\ logs' = addLog(logs, r.name, "Tool failed", Stringify(response), TRUE)
       /\ calls' = Put(c, Returned(Emit(Raise(r, msg), "Tool failed", TRUE), "mcpCallTool", response,
                                   activeClients))
  /\ UNCHANGED <<activeClients, sessions, servers, issued>>

\* ------------------------------------------------------- _handleExecuteTool
\* webview.postMessage of a toolResult, which ends the handler
Deliver(c, r, result) ==
  calls' = Put(c, Finished([r EXCEPT !.out = [result EXCEPT !.at = r.elapsed],
                                     !.delivered = TRUE], activeClients))

\* resumes after await mcpCallTool(...)
ExecuteAfterCall(c) ==
  LET r == calls[c]
      start == 0
      end == r.elapsed
  IN
  /\ r.op = "_handleExecuteTool" /\ r.pc = "ret" /\ r.fn = "mcpCallTool"
  /\ IF ~r.ret.success
       THEN Deliver(c, r, [ToolResult("error", "none") EXCEPT !.text = r.ret.error])
       ELSE IF end - start < MinLatency
         THEN calls' = Put(c, [r EXCEPT !.pc = "delay",
                                        !.wake = end + (MinLatency - (end - start))])
         ELSE Deliver(c, r, Classify(r.resp))
  /\ UNCHANGED <<activeClients, sessions, logs, servers, issued>>

\* the setTimeout of the latency floor fired
ExecuteAfterDelay(c) ==
  LET r == calls[c] IN
  /\ r.op = "_handleExecuteTool" /\ r.pc = "delay"
  /\ r.elapsed >= r.wake
  /\ Deliver(c, r, Classify(r.resp))
  /\ UNCHANGED <<activeClients, sessions, logs, servers, issued>>

\* time passes for the tool executions in flight
Tick ==
  /\ \E c \in Slots : calls[c].op = "_handleExecuteTool" /\ ~Free(c)
                      /\ calls[c].elapsed < MaxElapsed
  /\ calls' = [c \in Slots |->
       IF calls[c].op = "_handleExecuteTool" /\ ~Free(c)
         THEN [calls[c] EXCEPT !.elapsed = @ + TickMs]
         ELSE IF calls[c].pc = "done" THEN IdleCall ELSE calls[c]]
  /\ UNCHANGED <<activeClients, sessions, logs, servers, issued>>

\* ------------------------------------------------------------ issuing calls
\* a call is issued in the lowest free slot (the slots are interchangeable)
CanStart(c) ==
  /\ issued < MaxCalls
  /\ Free(c)
  /\ \A d \in Slots : d < c => ~Free(d)

Fresh(op, n, k) == [IdleCall EXCEPT !.op = op, !.name = n, !.kind = k]

StartConnect(c) ==
  /\ CanStart(c)
  /\ \E n \in Names, k \in ConfigKinds : ConnectEnter(c, Fresh("mcpConnect", n, k))
  /\ issued' = issued + 1
  /\ UNCHANGED servers

StartDisconnect(c) ==
  /\ CanStart(c)
  /\ \E n \in Names : DisconnectEnter(c, Fresh("mcpDisconnect", n, "stdio"))
  /\ issued' = issued + 1
  /\ UNCHANGED servers

StartGetTools(c) ==
  /\ CanStart(c)
  /\ \E n \in Names : GetToolsEnter(c, Fresh("mcpGetTools", n, "stdio"))
  /\ issued' = issued + 1
  /\ UNCHANGED servers

StartGetToolsList(c) ==
  /\ CanStart(c)
  /\ \E n \in Names : GetToolsListEnter(c, Fresh("getToolsList", n, "stdio"))
  /\ issued' = issued + 1
  /\ UNCHANGED servers

\* the orchestrations are issued one at a time
CanStartBuild(c) ==
  /\ issued < MaxBuildCalls
  /\ c = 1
  /\ \A d \in Slots : Free(d)

StartBuild(c) ==
  /\ CanStartBuild(c)
  /\ \E n \in Names, k \in ConfigKinds :
       ConnectEnter(c, [Fresh("mcpConnectAndBuildSchema", n, k) EXCEPT
                          !.was = activeClients[n]])
  /\ issued' = issued + 1
  /\ UNCHANGED servers

StartCommand(c) ==
  /\ CanStartBuild(c)
  /\ \E n \in Names, k \in ConfigKinds :
       ConnectEnter(c, Fresh("MCPConnectCommand", n, k))
  /\ issued' = issued + 1
  /\ UNCHANGED servers

\* a tool fetch from a server whose tool has any input schema, one call at
\* a time
StartFetch(c) ==
  /\ issued < MaxFetchCalls
  /\ c = 1
  /\ \A d \in Slots : Free(d)
  /\ \E n \in Names, schema \in InputSchemas :
       GetToolsEnter(c, [Fresh("mcpGetTools", n, "stdio") EXCEPT !.inputSchema = schema])
  /\ issued' = issued + 1
  /\ UNCHANGED servers

\* the functions of the client called directly, tool calls among them,
\* interleaving freely
OpsKinds == {"stdio", "http", "httpBadUrl"}

CanStartOp(c) ==
  /\ issued < MaxOps
  /\ Free(c)
  /\ \A d \in Slots : d < c => ~Free(d)

StartOpConnect(c) ==
  /\ CanStartOp(c)
  /\ \E n \in Names, k \in OpsKinds : ConnectEnter(c, Fresh("mcpConnect", n, k))
  /\ issued' = issued + 1
  /\ UNCHANGED servers

StartOpDisconnect(c) ==
  /\ CanStartOp(c)
  /\ \E n \in Names : DisconnectEnter(c, Fresh("mcpDisconnect", n, "stdio"))
  /\ issued' = issued + 1
  /\ UNCHANGED servers

StartOpGetTools(c) ==
  /\ CanStartOp(c)
  /\ \E n \in Names : GetToolsEnter(c, Fresh("mcpGetTools", n, "stdio"))
  /\ issued' = issued + 1
  /\ UNCHANGED servers

StartOpCallTool(c) ==
  /\ CanStartOp(c)
  /\ \E n \in Names : CallToolEnter(c, Fresh("mcpCallTool", n, "stdio"))
  /\ issued' = issued + 1
  /\ UNCHANGED servers

\* the command mcp4humans.storageDeleteServer: await mcpDisconnect(name),
\* whose response is not read, then await storageDeleteServer(context, name)
StartDeleteCommand(c) ==
  /\ CanStartOp(c)
  /\ \E n \in Names : DisconnectEnter(c, Fresh("StorageDeleteServerCommand", n, "stdio"))
  /\ issued' = issued + 1
  /\ UNCHANGED servers

\* resumes after await mcpDisconnect(serverName): delete the record; the
\* tree refresh or the error message follows
DeleteAfterDisconnect(c) ==
  LET r == calls[c]
      stores == storageDeleteServer(servers, r.name)
  IN
  /\ r.op = "StorageDeleteServerCommand" /\ r.pc = "ret" /\ r.fn = "mcpDisconnect"
  /\ servers' = stores.servers
  /\ calls' = Put(c, Finished([r EXCEPT !.saved = stores.response], activeClients))
  /\ UNCHANGED <<activeClients, sessions, logs, issued>>

\* mcpIsServerConnected(serverName), which returns at once
StartOpIsConnected(c) ==
  /\ CanStartOp(c)
  /\ \E n \in Names :
       calls' = Put(c, Finished(Fresh("mcpIsServerConnected", n, "stdio"), activeClients))
  /\ issued' = issued + 1
  /\ UNCHANGED <<activeClients, sessions, logs, servers>>

\* the storage functions called one at a time, on any schema
StoredSchema(n, k) == [name |-> n, kind |-> k, tools |-> <<>>]

StoreCall(c, op, n, k, oldName, stores) ==
  /\ issued < MaxStoreCalls
  /\ c = 1
  /\ servers' = stores.servers
  /\ calls' = Put(c, [Fresh(op, n, k) EXCEPT !.pc = "done", !.oldName = oldName,
                                             !.ret = stores.response])
  /\ issued' = issued + 1
  /\ UNCHANGED <<activeClients, sessions, logs>>

StartStorageAdd(c) ==
  \E n \in Names, k \in ConfigKinds :
    StoreCall(c, "storageServerAdd", n, k, NoName, storageServerAdd(servers, StoredSchema(n, k)))

StartStorageUpdate(c) ==
  \E n \in Names, k \in ConfigKinds, oldName \in Names \cup {NoName} :
    StoreCall(c, "storageUpdateServer", n, k, oldName,
              storageUpdateServer(servers, StoredSchema(n, k), oldName))

StartStorageDelete(c) ==
  \E n \in Names :
    StoreCall(c, "storageDeleteServer", n, "stdio", NoName, storageDeleteServer(servers, n))

\* the command mcp4humans.logServerAdd: the next numbered message of a
\* server is appended to its log, the clock reading now
LogServerAddAt(n, now) ==
  LET last == IF logs[n] = <<>> THEN 0 ELSE logs[n][Len(logs[n])].rawData[1]
  IN /\ logs' = addLogAt(logs, n, "message", <<last + 1>>, FALSE, now)
     /\ calls' = Sweep
     /\ issued' = issued + 1
     /\ UNCHANGED <<activeClients, sessions, servers>>

LogServerAdd ==
  /\ issued < MaxAppends
  /\ \E n \in Names : LogServerAddAt(n, Now(logs))

\* the same while the clock runs: it has advanced by a millisecond or not
LogServerAddTimed ==
  /\ issued < MaxReadAppends
  /\ \E n \in Names, dt \in {0, 1} : LogServerAddAt(n, Now(logs) + dt)

\* the message 'clearLogs' of the server view
ClearLogs ==
  /\ \E n \in Names :
       /\ logs[n] # <<>>
       /\ logs' = clearLogs(logs, n)
  /\ calls' = Sweep
  /\ UNCHANGED <<activeClients, sessions, servers, issued>>

\* the server view reads the log of its server to render it
GetLogs(c) ==
  /\ c = 1
  /\ \E n \in Names :
       calls' = Put(c, [Fresh("getLogs", n, "stdio") EXCEPT
                          !.pc = "done", !.read = getLogs(logs, n)])
  /\ UNCHANGED <<activeClients, sessions, logs, servers, issued>>

\* a STDIO connect with any stdioConfig, one call at a time
StartSpawn(c) ==
  /\ issued < MaxSpawnCalls
  /\ c = 1
  /\ \A d \in Slots : Free(d)
  /\ \E n \in Names, cfg \in StdioConfigs :
       ConnectEnter(c, [Fresh("mcpConnect", n, "stdio") EXCEPT !.stdioConfig = cfg])
  /\ issued' = issued + 1
  /\ UNCHANGED servers

\* the tool is looked up in the schema of the panel; an unknown tool ends
\* the handler with an error popup and no toolResult
StartExecute(c) ==
  /\ issued < MaxExecCalls
  /\ c = 1
  /\ \A d \in Slots : Free(d)
  /\ \E n \in Names, known \in BOOLEAN :
       LET r == Fresh("_handleExecuteTool", n, "stdio") IN
       IF known
         THEN CallToolEnter(c, r)
         ELSE /\ calls' = Put(c, Finished(r, activeClients))
              /\ UNCHANGED <<activeClients, sessions, logs>>
  /\ issued' = issued + 1
  /\ UNCHANGED servers

\* ---------------------------------------------------------- specifications
\* the steps of mcpConnect, mcpDisconnect and mcpGetTools past their awaits
Resume(c) ==
  \/ ConnectSpawned(c)
  \/ ConnectStdioHandshake(c)
  \/ ConnectStreamable(c)
  \/ ConnectSSE(c)
  \/ DisconnectClosed(c)
  \/ DisconnectCloseFailed(c)
  \/ GetToolsListed(c)
  \/ GetToolsFailed(c)

\* Spec: the registry functions called directly, interleaving freely
Next ==
  \E c \in Slots :
    \/ StartConnect(c)
    \/ StartDisconnect(c)
    \/ StartGetTools(c)
    \/ StartGetToolsList(c)
    \/ Resume(c)
    \/ GetToolsListListed(c)
    \/ GetToolsListFailed(c)

Spec == Init /\ [][Next]_vars

\* SpecBuild: the connect-and-fetch orchestrations
NextBuild ==
  \E c \in Slots :
    \/ StartBuild(c)
    \/ StartCommand(c)
    \/ Resume(c)
    \/ BuildAfterConnect(c)
    \/ BuildAfterGetTools(c)
    \/ BuildSave(c)
    \/ CommandAfterConnect(c)
    \/ CommandAfterGetTools(c)
    \/ AfterDisconnect(c)

SpecBuild == Init /\ [][NextBuild]_vars

\* SpecExec: tool executions from the server view, against a registry in
\* which A was connected over STDIO and B never was
InitExec ==
  /\ activeClients = [n \in Names |-> IF n = "A" THEN 1 ELSE 0]
  /\ sessions = <<NewSession("A")>>
  /\ logs = [n \in Names |->
       IF n = "A" THEN <<LogEntry("Connected (STDIO)", <<>>, FALSE, 0)>> ELSE <<>>]
  /\ servers = <<>>
  /\ calls = [c \in Slots |-> IdleCall]
  /\ issued = 0

NextExec ==
  \/ Tick
  \/ \E c \in Slots :
       \/ StartExecute(c)
       \/ CallToolResolved(c)
       \/ CallToolRejected(c)
       \/ ExecuteAfterCall(c)
       \/ ExecuteAfterDelay(c)

SpecExec == InitExec /\ [][NextExec]_vars

\* SpecSpawn: STDIO connects over every stdioConfig
NextSpawn ==
  \E c \in Slots :
    \/ StartSpawn(c)
    \/ ConnectSpawned(c)
    \/ ConnectStdioHandshake(c)

SpecSpawn == Init /\ [][NextSpawn]_vars

\* SpecSchema: tool fetches over every input schema, A being connected
NextSchema ==
  \E c \in Slots :
    \/ StartFetch(c)
    \/ GetToolsListed(c)
    \/ GetToolsFailed(c)

SpecSchema == InitExec /\ [][NextSchema]_vars

\* SpecOps: connects, disconnects, tool fetches, tool calls and connection
\* queries interleaving, A being connected at the start
NextOps ==
  \E c \in Slots :
    \/ StartOpConnect(c)
    \/ StartOpDisconnect(c)
    \/ StartOpGetTools(c)
    \/ StartOpCallTool(c)
    \/ StartOpIsConnected(c)
    \/ Resume(c)
    \/ CallToolResolved(c)
    \/ CallToolRejected(c)

SpecOps == InitExec /\ [][NextOps]_vars

\* SpecDelete: delete-server commands, disconnects and connection queries
\* interleaving, A and B being stored and connected over STDIO at the start
InitDelete ==
  /\ activeClients = [n \in Names |-> IF n = "A" THEN 1 ELSE 2]
  /\ sessions = <<NewSession("A"), NewSession("B")>>
  /\ logs = [n \in Names |-> <<LogEntry("Connected (STDIO)", <<>>, FALSE, 0)>>]
  /\ servers = <<StoredSchema("A", "stdio"), StoredSchema("B", "stdio")>>
  /\ calls = [c \in Slots |-> IdleCall]
  /\ issued = 0

NextDelete ==
  \E c \in Slots :
    \/ StartDeleteCommand(c)
    \/ StartOpDisconnect(c)
    \/ StartOpIsConnected(c)
    \/ DisconnectClosed(c)
    \/ DisconnectCloseFailed(c)
    \/ DeleteAfterDisconnect(c)

SpecDelete == InitDelete /\ [][NextDelete]_vars

\* SpecOpsLive: SpecOps with the handshakes settling. Each client.connect
\* is called with {timeout: 5000}, so a handshake that is awaited resolves
\* or rejects; the await of stdioTransport.start() has no timeout, and the
\* spawn step is left without fairness.
HandshakesSettle ==
  \A c \in Slots :
    /\ WF_vars(ConnectStdioHandshake(c))
    /\ WF_vars(ConnectStreamable(c))
    /\ WF_vars(ConnectSSE(c))

SpecOpsLive == SpecOps /\ HandshakesSettle

\* SpecStore: the config store under its three writing functions
NextStore ==
  \E c \in Slots :
    \/ StartStorageAdd(c)
    \/ StartStorageUpdate(c)
    \/ StartStorageDelete(c)

SpecStore == Init /\ [][NextStore]_vars

\* SpecLog: the log service filled beyond its capacity
NextLog ==
  \/ LogServerAdd
  \/ ClearLogs

SpecLog == Init /\ [][NextLog]_vars

\* SpecRead: the log service written and read while the clock runs
NextRead ==
  \/ LogServerAddTimed
  \/ \E c \in Slots : GetLogs(c)

SpecRead == Init /\ [][NextRead]_vars

TypeOK ==
  /\ \A n \in Names : activeClients[n] \in 0..Len(sessions)
  /\ issued \in Nat

\* ------------------------------------------------------------------ claims
IsDone(c, op) == calls[c].pc = "done" /\ calls[c].op = op

\* C1: at any point at most one session whose handshake succeeded and that
\* has not been closed exists for a server name, whatever connects and
\* disconnects were called on that name.
C1_AtMostOneLiveSession ==
  \A n \in Names : Cardinality(LiveSessions(n)) <= 1

\* the connect of an orchestration succeeded and its tool fetch failed
FetchFailed(r) ==
  /\ r.registered
  /\ \/ r.fn = "mcpGetTools" /\ ~r.ret.success
     \/ r.fn = "mcpDisconnect"

\* C2: when a connect-and-fetch orchestration (mcpConnectAndBuildSchema or
\* the MCPConnect command) is over after a successful connect and a failed
\* tool fetch, the server is not connected.
C2_FetchFailureTearsDown ==
  \A c \in Slots :
    /\ calls[c].pc = "done"
    /\ calls[c].op \in {"mcpConnectAndBuildSchema", "MCPConnectCommand"}
    /\ FetchFailed(calls[c])
    => ~calls[c].obs

\* C3: when mcpDisconnect returns success, the client it closed is closed
\* and the name has no entry in the registry.
C3_DisconnectSuccessRemoves ==
  \A c \in Slots :
    IsDone(c, "mcpDisconnect") /\ calls[c].ret.success
    => /\ sessions[calls[c].client].st = "closed"
       /\ ~mcpIsServerConnected(activeClients, calls[c].name)
       /\ ~calls[c].obs

C3_Witness ==
  \E c \in Slots : IsDone(c, "mcpDisconnect") /\ calls[c].ret.success

FallbackAttempts ==
  <<[proto |-> "streamable", ok |-> FALSE], [proto |-> "sse", ok |-> TRUE]>>

\* C4: an HTTP connect whose StreamableHTTP handshake failed and whose SSE
\* handshake succeeded returns success with the session registered, and
\* has appended to the server's log exactly one error entry (for
\* StreamableHTTP) and then exactly one non-error entry (for SSE).
C4_FallbackLogsFailureThenSuccess ==
  \A c \in Slots :
    IsDone(c, "mcpConnect") /\ calls[c].attempts = FallbackAttempts
    => LET r == calls[c]
           lg == logs[r.name]
       IN
       /\ r.ret.success
       /\ activeClients[r.name] = r.client
       /\ sessions[r.client].st = "live"
       /\ r.emitted = <<[message |-> "StreamableHTTP connection failed", isError |-> TRUE],
                        [message |-> "Connected (SSE Fallback)", isError |-> FALSE]>>
       /\ Len(lg) >= 2
       /\ lg[Len(lg)].message = "Connected (SSE Fallback)" /\ ~lg[Len(lg)].isError
       /\ \E i \in 1..(Len(lg) - 1) :
            lg[i].message = "StreamableHTTP connection failed" /\ lg[i].isError

C4_Witness ==
  \E c \in Slots : IsDone(c, "mcpConnect") /\ calls[c].attempts = FallbackAttempts

\* C5: an HTTP connect with a URL fails only when both the StreamableHTTP
\* and the SSE handshake failed; its error then carries both failure
\* messages, and the call stored nothing in the registry.
C5_ConnectErrorOnlyIfBothFailed ==
  \A c \in Slots :
    IsDone(c, "mcpConnect") /\ calls[c].kind = "http" /\ ~calls[c].ret.success
    => LET r == calls[c] IN
       /\ r.attempts = <<[proto |-> "streamable", ok |-> FALSE],
                         [proto |-> "sse", ok |-> FALSE]>>
       /\ \E m1 \in StreamableErrors, m2 \in SSEErrors :
            /\ r.err1 = <<m1>>
            /\ \E i, j \in 1..Len(r.ret.error) :
                 i < j /\ r.ret.error[i] = m1 /\ r.ret.error[j] = m2
       /\ ~r.registered
       /\ r.client = 0

C5_Witness ==
  \E c \in Slots :
    IsDone(c, "mcpConnect") /\ calls[c].kind = "http" /\ ~calls[c].ret.success

\* a tool execution that posted its toolResult
Delivered(c) == IsDone(c, "_handleExecuteTool") /\ calls[c].delivered

\* the server answered the tool call
Responded(r) == \E i \in 1..Len(r.emitted) : r.emitted[i].message = "Tool Response"

\* C6: a response whose isError flag is true is delivered as failed
\* (ToolFailure), whatever its content.
C6_FlagForcesToolFailure ==
  \A c \in Slots :
    Delivered(c) /\ Responded(calls[c]) /\ calls[c].resp.flag = "true"
    => calls[c].out.resultType = "failed"

\* C7: a tool execution is delivered as error (TransportError) exactly when
\* the server did not answer the call; every response is delivered as
\* success or failed.
C7_TransportErrorIffNoResponse ==
  \A c \in Slots :
    Delivered(c)
    => /\ calls[c].out.resultType \in {"success", "failed", "error"}
       /\ calls[c].out.resultType = "error" <=> ~Responded(calls[c])

\* the first content entry is text that JSON.parse accepts
FirstTextParses(resp) ==
  /\ resp.hasContent /\ Len(resp.content) > 0
  /\ resp.content[1].type = "text" /\ resp.content[1].hasText
  /\ JSONparse(resp.content[1].text).ok

FirstTextDoesNotParse(resp) ==
  /\ resp.hasContent /\ Len(resp.content) > 0
  /\ resp.content[1].type = "text" /\ resp.content[1].hasText
  /\ ~JSONparse(resp.content[1].text).ok

\* the value is an object with a string member status reading "error" in
\* any letter case
StatusReadsError(v) ==
  /\ v.t = "obj"
  /\ \E i \in 1..Len(v.keys) :
       /\ v.keys[i] = Str_status
       /\ \A j \in 1..Len(v.keys) : v.keys[j] = Str_status => j <= i
       /\ v.items[i].t = "str"
       /\ Len(v.items[i].chars) = 5
       /\ \A k \in 1..5 : v.items[i].chars[k] \in {LowerCase[Str_errorIdx[k]], UpperCase[Str_errorIdx[k]]}

\* C8: an unflagged response whose first content entry is text that parses
\* as JSON (any JSON value) is delivered with content type json, as failed
\* exactly when the value has a status member reading "error" in any letter
\* case and as success otherwise.
C8_JsonTextIsStructured ==
  \A c \in Slots :
    Delivered(c) /\ Responded(calls[c]) /\ calls[c].resp.flag # "true"
      /\ FirstTextParses(calls[c].resp)
    => LET r == calls[c]
           v == JSONparse(r.resp.content[1].text).val
       IN
       /\ r.out.contentType = "json"
       /\ r.out.json = v
       /\ r.out.resultType = IF StatusReadsError(v) THEN "failed" ELSE "success"

\* the text starts with the letters e r r o r in any letter case
PrefixReadsError(text) ==
  /\ Len(text) >= 5
  /\ \A k \in 1..5 : text[k] \in {LowerCase[Str_errorIdx[k]], UpperCase[Str_errorIdx[k]]}

IsLetter(ch) == \E j \in 1..26 : ch = LowerCase[j] \/ ch = UpperCase[j]

\* the leading word of the text is "error" in any letter case: the prefix,
\* followed by the end of the text or by a character that is no letter
LeadingWordReadsError(text) ==
  /\ PrefixReadsError(text)
  /\ Len(text) > 5 => ~IsLetter(text[6])

\* C9 as stated: an unflagged response whose first content entry is text
\* that does not parse as JSON is delivered with content type text and the
\* text as data, as failed exactly when the leading word of the text reads
\* "error" in any letter case.
C9_LeadingWordError ==
  \A c \in Slots :
    Delivered(c) /\ Responded(calls[c]) /\ calls[c].resp.flag # "true"
      /\ FirstTextDoesNotParse(calls[c].resp)
    => LET r == calls[c]
           text == r.resp.content[1].text
       IN
       /\ r.out.contentType = "text"
       /\ r.out.text = text
       /\ r.out.resultType = IF LeadingWordReadsError(text) THEN "failed" ELSE "success"

\* C9 amended: ... as failed exactly when the text starts with the five
\* characters "error" in any letter case, whatever follows them.
C9_PrefixError ==
  \A c \in Slots :
    Delivered(c) /\ Responded(calls[c]) /\ calls[c].resp.flag # "true"
      /\ FirstTextDoesNotParse(calls[c].resp)
    => LET r == calls[c]
           text == r.resp.content[1].text
       IN
       /\ r.out.contentType = "text"
       /\ r.out.text = text
       /\ r.out.resultType = IF PrefixReadsError(text) THEN "failed" ELSE "success"

C9_Witness ==
  \E c \in Slots :
    /\ Delivered(c) /\ Responded(calls[c]) /\ calls[c].resp.flag # "true"
    /\ FirstTextDoesNotParse(calls[c].resp)
    /\ calls[c].resp.content[1].text = Txt_ErrorFile
    /\ calls[c].out.resultType = "failed"

\* C10: no toolResult, whatever its result type, is posted before the
\* latency floor of 200 ms has elapsed since the call was issued.
C10_LatencyFloor ==
  \A c \in Slots : Delivered(c) => calls[c].out.at >= MinLatency

\* C11: when a tool call is issued on a name that has no entry in the
\* registry, mcpCallTool returns at once the failure "No active connection
\* for server: <name>"; no transport call was issued (nothing was logged),
\* no session was created and the registry is unchanged.
C11_NoSessionNoCall ==
  [][\A c \in Slots :
       /\ Free(c)
       /\ calls'[c].op = "_handleExecuteTool"
       /\ calls'[c].pc \notin {"idle", "done"}
       /\ activeClients[calls'[c].name] = 0
       => /\ calls'[c].pc = "ret" /\ calls'[c].fn = "mcpCallTool"
          /\ ~calls'[c].ret.success
          /\ calls'[c].ret.error = <<"No active connection for server: ", calls'[c].name>>
          /\ calls'[c].emitted = <<>>
          /\ activeClients' = activeClients
          /\ sessions' = sessions
          /\ logs' = logs]_vars

C11_Witness ==
  \E c \in Slots :
    /\ calls[c].op = "_handleExecuteTool" /\ calls[c].pc = "ret"
    /\ calls[c].fn = "mcpCallTool"
    /\ activeClients[calls[c].name] = 0
    /\ calls[c].ret.error = <<"No active connection for server: ", calls[c].name>>

\* C12: a tool fetch (mcpGetTools, getToolsList) to which the server
\* reported zero tools, as an empty or a missing tool list, returns success
\* with an empty tool list.
C12_ZeroToolsIsSuccess ==
  \A c \in Slots :
    /\ calls[c].pc = "done"
    /\ calls[c].op \in {"mcpGetTools", "getToolsList"}
    /\ calls[c].listed \in {"missing", "empty"}
    => calls[c].ret.success /\ calls[c].ret.hasData /\ calls[c].ret.data = <<>>

\* call c takes a step of its own as a call of op (a sweep of its finished
\* record is no step of the call)
Acts(c, op) ==
  calls'[c] # calls[c] /\ calls'[c].op = op /\ calls'[c].pc # "idle"

\* C13: no step of a connect call other than its successful return changes
\* the registry, and a connect call that returned a failure stored no entry:
\* the registry is as the call found it.
C13_FailedConnectFrame ==
  [][\A c \in Slots :
       Acts(c, "mcpConnect") /\ ~(calls'[c].pc = "done" /\ calls'[c].ret.success)
       => /\ activeClients' = activeClients
          /\ calls'[c].pc = "done" => ~calls'[c].registered /\ calls'[c].client = 0]_vars

C13_Witness ==
  \E c \in Slots :
    /\ IsDone(c, "mcpConnect") /\ ~calls[c].ret.success
    /\ calls[c].attempts # <<>>
    /\ mcpIsServerConnected(activeClients, calls[c].name)

\* C14: a disconnect on a name without entry returns the failure "No active
\* connection" and changes neither registry nor sessions nor log; a
\* disconnect whose close failed returns a failure, logs it as an error and
\* leaves registry and sessions as they were, so that the entry is still
\* there for another disconnect.
C14_FailedDisconnectFrame ==
  [][\A c \in Slots :
       Acts(c, "mcpDisconnect") /\ calls'[c].pc = "done" /\ ~calls'[c].ret.success
       => /\ activeClients' = activeClients
          /\ sessions' = sessions
          /\ IF calls'[c].client = 0
               THEN /\ activeClients[calls'[c].name] = 0
                    /\ calls'[c].ret.error = <<"No active connection for server: ", calls'[c].name>>
                    /\ logs' = logs
               ELSE /\ calls'[c].emitted = <<[message |-> "Disconnect failed", isError |-> TRUE]>>
                    /\ logs'[calls'[c].name] # logs[calls'[c].name]]_vars

C14_Witness ==
  \E c \in Slots :
    /\ IsDone(c, "mcpDisconnect") /\ ~calls[c].ret.success
    /\ calls[c].client # 0
    /\ activeClients[calls[c].name] = calls[c].client
    /\ sessions[calls[c].client].st = "live"

\* a connect call waits for a spawn or a handshake
Outstanding(r) == r.pc \in {"spawn", "handshake", "http1", "http2"}

\* no handshake for the name has completed so far
NeverConnected(n) == \A i \in 1..Len(sessions) : sessions[i].name # n

\* C15: every entry of the registry is a client whose handshake for that
\* name completed, and while a connect is outstanding for a name for which
\* no handshake has completed, the name is not connected.
C15_NoConnectingState ==
  /\ \A n \in Names :
       activeClients[n] # 0
       => activeClients[n] \in 1..Len(sessions) /\ sessions[activeClients[n]].name = n
  /\ \A c \in Slots :
       Outstanding(calls[c]) /\ NeverConnected(calls[c].name)
       => ~mcpIsServerConnected(activeClients, calls[c].name)

C15_Witness ==
  \E c \in Slots :
    /\ calls[c].op = "mcpConnect" /\ calls[c].pc = "handshake"
    /\ NeverConnected(calls[c].name)
    /\ \E n \in Names : activeClients[n] # 0

\* C16: every connect call that returned has logged its outcome: its last
\* log entry is a non-error entry if it returned success and an error
\* entry if it returned a failure.
C16_ConnectOutcomeLogged ==
  \A c \in Slots :
    IsDone(c, "mcpConnect")
    => LET e == calls[c].emitted IN
       Len(e) >= 1 /\ (e[Len(e)].isError <=> ~calls[c].ret.success)

\* C17: when mcpCallTool returns, whatever the outcome, the call has logged
\* it: its last log entry is an error entry exactly when the outcome is a
\* failure.
C17_InvokeOutcomeLogged ==
  \A c \in Slots :
    calls[c].op = "_handleExecuteTool" /\ calls[c].pc = "ret" /\ calls[c].fn = "mcpCallTool"
    => LET e == calls[c].emitted IN
       Len(e) >= 1 /\ (e[Len(e)].isError <=> ~calls[c].ret.success)

\* C18: a connect whose transport type is neither stdio nor http returns
\* in its first step the failure "Unsupported transport type: <type>",
\* with no spawn and no handshake attempted and the registry unchanged.
C18_UnsupportedTransport ==
  [][\A c \in Slots :
       Acts(c, "mcpConnect") /\ calls'[c].kind = "other"
       => /\ calls'[c].pc = "done"
          /\ ~calls'[c].ret.success
          /\ calls'[c].ret.error = <<"Unsupported transport type: ", "other">>
          /\ calls'[c].attempts = <<>>
          /\ activeClients' = activeClients
          /\ sessions' = sessions]_vars

C18_Witness ==
  \E c \in Slots :
    IsDone(c, "mcpConnect") /\ calls[c].kind = "other" /\ ~calls[c].ret.success

\* the identity is invalid: the config block of its transport type or the
\* url is missing, or the url is malformed or has another path than /mcp
\* or /sse
InvalidIdentity(kind) == kind \in {"stdioNoCfg", "httpNoUrl", "httpBadUrl", "httpBadPath"}

\* C19: a connect with an invalid identity never spawns a process and never
\* starts a handshake.
C19_InvalidIdentityNoIO ==
  \A c \in Slots :
    calls[c].pc # "idle" /\ InvalidIdentity(calls[c].kind)
    => ~Outstanding(calls[c]) /\ calls[c].attempts = <<>>

\* a working directory is configured
DirSet(cfg) == cfg.cwd.has /\ cfg.cwd.dir # ""

\* the configured args hold a directory flag
HasDirectoryFlag(cfg) == \E i \in 1..Len(cfg.args) : cfg.args[i] \in {"--directory", "-d"}

\* C20: a STDIO connect spawns the configured command; for command "uv"
\* with a working directory and no directory flag among the args, the
\* spawned args are "--directory", the directory, then the configured args
\* in their order, and no cwd option is set; for every other command the
\* spawned args are the configured args and the cwd option is the
\* configured working directory.
C20_UvDirectoryRewrite ==
  \A c \in Slots :
    calls[c].op = "mcpConnect" /\ calls[c].kind = "stdio" /\ calls[c].pc # "idle"
    => LET cfg == calls[c].stdioConfig
           sp == calls[c].spawn
       IN
       /\ sp.command = cfg.cmd
       /\ cfg.cmd = "uv" /\ DirSet(cfg) /\ ~HasDirectoryFlag(cfg)
          => /\ Len(sp.args) = Len(cfg.args) + 2
             /\ sp.args[1] = "--directory" /\ sp.args[2] = cfg.cwd.dir
             /\ \A i \in 1..Len(cfg.args) : sp.args[i + 2] = cfg.args[i]
             /\ ~sp.cwd.has
       /\ cfg.cmd # "uv"
          => /\ sp.args = cfg.args
             /\ IF DirSet(cfg) THEN sp.cwd = cfg.cwd ELSE ~sp.cwd.has

C20_Witness ==
  \E c \in Slots :
    /\ calls[c].op = "mcpConnect" /\ calls[c].pc = "handshake"
    /\ calls[c].stdioConfig = StdioConfig("uv", <<"run", "server.py">>, Dir("/srv/app"))
    /\ calls[c].spawn.args = <<"--directory", "/srv/app", "run", "server.py">>
    /\ ~calls[c].spawn.cwd.has

\* the ToolParameterType the spec gives a property
ExpectedType(prop) ==
  CASE prop.hasType /\ prop.type = "number" -> "number"
    [] prop.hasType /\ prop.type = "integer" -> "number"
    [] prop.hasType /\ prop.type = "boolean" -> "boolean"
    [] prop.hasType /\ prop.type = "array" -> "array"
    [] prop.hasType /\ prop.type = "object" -> "object"
    [] OTHER -> "string"

\* C21: the parameters of a fetched tool are one per property of its input
\* schema, in the order of the properties, with the property's name, with
\* type number for "number" and "integer", boolean for "boolean", array for
\* "array", object for "object" and string otherwise, and required exactly
\* when the schema's required field is an array that holds the name.
C21_NormalizeParameters ==
  \A c \in Slots :
    IsDone(c, "mcpGetTools") /\ calls[c].listed = "tools"
    => LET schema == calls[c].inputSchema
           ps == calls[c].ret.data[1].parameters
       IN
       /\ Len(calls[c].ret.data) = 1
       /\ IF ~schema.hasProperties THEN ps = <<>>
          ELSE /\ Len(ps) = Len(schema.properties)
               /\ \A i \in 1..Len(ps) :
                    /\ ps[i].name = schema.properties[i].name
                    /\ ps[i].type = ExpectedType(schema.properties[i])
                    /\ ps[i].required <=>
                         /\ schema.required.kind = "array"
                         /\ \E j \in 1..Len(schema.required.items) :
                              schema.required.items[j] = ps[i].name

C21_Witness ==
  \E c \in Slots :
    /\ IsDone(c, "mcpGetTools") /\ calls[c].listed = "tools"
    /\ calls[c].inputSchema =
         InputSchema(TRUE, <<Property("x", TRUE, "integer"), Property("y", FALSE, "")>>,
                     Required("array", <<"x">>))
    /\ calls[c].ret.data[1].parameters[1].type = "number"
    /\ calls[c].ret.data[1].parameters[1].required
    /\ ~calls[c].ret.data[1].parameters[2].required

\* the number of the message an entry holds
NumberOf(entry) == entry.rawData[1]

\* C22: every log holds at most maxLogEntries entries, and an append puts
\* the new entry last behind the former entries of its server, without the
\* oldest of them if the log was full, so that the log holds the messages
\* appended last, in the order of their appending.
C22_LogCapFIFO ==
  [][/\ \A n \in Names : Len(logs'[n]) <= maxLogEntries
     /\ issued' # issued
        => \E n \in Names :
             LET old == logs[n]
                 new == logs'[n]
             IN /\ new # <<>>
                /\ new = Append(IF Len(old) < maxLogEntries THEN old ELSE Tail(old),
                                new[Len(new)])
                /\ NumberOf(new[Len(new)]) =
                     IF old = <<>> THEN 1 ELSE NumberOf(old[Len(old)]) + 1
                /\ \A i \in 1..Len(new) :
                     NumberOf(new[i]) = NumberOf(new[Len(new)]) - (Len(new) - i)]_vars

C22_Witness ==
  \E n \in Names :
    /\ Len(logs[n]) = maxLogEntries
    /\ NumberOf(logs[n][1]) = 2
    /\ NumberOf(logs[n][maxLogEntries]) = maxLogEntries + 1

Reverse(seq) == [i \in 1..Len(seq) |-> seq[Len(seq) + 1 - i]]

\* C23: a read returns the entries of the server's log in the reverse of
\* the order of their appending, whatever their timestamps.
C23_ReadNewestFirst ==
  \A c \in Slots :
    IsDone(c, "getLogs") => calls[c].read = Reverse(logs[calls[c].name])

\* C24: an update that renames a stored server to the name of another
\* stored server fails with the message that the name exists and leaves the
\* stored list as it was.
C24_RenameCollisionRejected ==
  [][\A c \in Slots :
       /\ Acts(c, "storageUpdateServer")
       /\ calls'[c].oldName # NoName
       /\ calls'[c].oldName # calls'[c].name
       /\ Stored(servers, calls'[c].oldName)
       /\ Stored(servers, calls'[c].name)
       => /\ ~calls'[c].ret.success
          /\ calls'[c].ret.error = AlreadyExists(calls'[c].name)
          /\ servers' = servers]_vars

C24_Witness ==
  \E c \in Slots :
    /\ IsDone(c, "storageUpdateServer")
    /\ calls[c].name = "B" /\ calls[c].oldName = "A"
    /\ calls[c].ret = Fail(AlreadyExists("B"))
    /\ Stored(servers, "A") /\ Stored(servers, "B")

\* C25: when a connect-and-save attempt for a new server is over whose name
\* a stored server has, so that the store refused the addition, the attempt
\* has not returned a schema and the name's entry in the registry is the
\* one it was when the attempt began.
C25_CreateNewNeverOverwrites ==
  \A c \in Slots :
    /\ IsDone(c, "mcpConnectAndBuildSchema")
    /\ calls[c].isNew
    /\ calls[c].saved = Fail(AlreadyExists(calls[c].name))
    => /\ calls[c].result # "schema"
       /\ activeClients[calls[c].name] = calls[c].was

\* C26: when the connect-and-save of an edit that changes the name of a
\* stored server to a name not stored saves the schema, the store then
\* holds a server of the new name and none of the old name.
C26_RenameThroughEditFlow ==
  [][\A c \in Slots :
       /\ Acts(c, "mcpConnectAndBuildSchema")
       /\ calls[c].pc = "save"
       /\ ~calls'[c].isNew
       /\ calls'[c].oldName # calls'[c].name
       /\ Stored(servers, calls'[c].oldName)
       /\ ~Stored(servers, calls'[c].name)
       => /\ Stored(servers', calls'[c].name)
          /\ ~Stored(servers', calls'[c].oldName)]_vars

\* C27: whatever connects and disconnects interleave on a name, every
\* session of the name that is live is the one the registry holds for the
\* name, and the session the registry holds is live.
C27_NoOrphanNoStale ==
  \A n \in Names :
    /\ \A i \in LiveSessions(n) : activeClients[n] = i
    /\ activeClients[n] # 0 => sessions[activeClients[n]].st = "live"

Attempt(proto, ok) == [proto |-> proto, ok |-> ok]

C29_RegistryMutatedByConnectDisconnectOnly ==
  [][/\ \A c \in Slots :
          \/ Acts(c, "mcpGetTools")
          \/ Acts(c, "mcpCallTool")
          \/ Acts(c, "mcpIsServerConnected")
          => activeClients' = activeClients
     /\ activeClients' # activeClients
        => \E c \in Slots :
             \/ Acts(c, "mcpConnect") /\ calls'[c].pc = "done" /\ calls'[c].ret.success
             \/ Acts(c, "mcpDisconnect")]_vars

C29_Witness ==
  \E c, d \in Slots :
    /\ IsDone(c, "mcpCallTool") /\ ~calls[c].ret.success
    /\ calls[c].emitted # <<>>
    /\ activeClients[calls[c].name] # 0
    /\ calls[d].op = "mcpGetTools" /\ calls[d].pc = "listTools"

\* C30: no step of a connect, disconnect, tool fetch or tool call on one
\* name changes the registry entry or the log of another name.
C30_NamesIndependent ==
  [][\A c \in Slots :
       \/ Acts(c, "mcpConnect")
       \/ Acts(c, "mcpDisconnect")
       \/ Acts(c, "mcpGetTools")
       \/ Acts(c, "mcpCallTool")
       => \A n \in Names \ {calls'[c].name} :
            /\ activeClients'[n] = activeClients[n]
            /\ logs'[n] = logs[n]]_vars

C30_Witness ==
  \E c \in Slots :
    /\ IsDone(c, "mcpCallTool") /\ calls[c].name = "A" /\ calls[c].emitted # <<>>
    /\ activeClients["B"] # 0 /\ logs["B"] # <<>>

Contains(seq, x) == \E i \in 1..Len(seq) : seq[i] = x

ClientOps == {"mcpConnect", "mcpDisconnect", "mcpGetTools", "mcpCallTool"}

C32_FailureLogged ==
  \A c \in Slots :
    /\ calls[c].pc = "done"
    /\ calls[c].op \in {"mcpDisconnect", "mcpGetTools"}
    /\ ~calls[c].ret.success
    => \E i \in 1..Len(calls[c].emitted) : calls[c].emitted[i].isError

\* the entry a call logged for the response of the tool
ResponseEntry(r) ==
  r.emitted[CHOOSE i \in 1..Len(r.emitted) : r.emitted[i].message = "Tool Response"]

\* C33: the log entry of a tool call that the server answered is an error
\* entry exactly when the execution is delivered as something else than
\* success.
C33_LogFlagMatchesOutcome ==
  \A c \in Slots :
    Delivered(c) /\ Responded(calls[c])
    => (ResponseEntry(calls[c]).isError <=> calls[c].out.resultType # "success")

\* the top-level status is a string reading "error" in any letter case
TopStatusReadsError(st) ==
  /\ st.present /\ st.val.t = "str"
  /\ Len(st.val.chars) = 5
  /\ \A k \in 1..5 : st.val.chars[k] \in {LowerCase[Str_errorIdx[k]], UpperCase[Str_errorIdx[k]]}

NoContent(resp) == ~resp.hasContent \/ resp.content = <<>>

\* C34: a response without content list, or with an empty one, is delivered
\* with content type raw and the whole response as data; as failed when its
\* top-level status reads "error" in any letter case, and as success when it
\* does not and the response is not flagged.
C34_NoContentIsRaw ==
  \A c \in Slots :
    Delivered(c) /\ Responded(calls[c]) /\ NoContent(calls[c].resp)
    => LET r == calls[c] IN
       /\ r.out.contentType = "raw"
       /\ r.out.raw = r.resp
       /\ r.out.resultType \in {"success", "failed"}
       /\ TopStatusReadsError(r.resp.status) => r.out.resultType = "failed"
       /\ ~TopStatusReadsError(r.resp.status) /\ r.resp.flag # "true"
          => r.out.resultType = "success"

\* the response cut down to its first content entry
FirstOnly(resp) == [resp EXCEPT !.content = <<resp.content[1]>>]

\* C35: a response with a non-empty content list is delivered with the
\* result type and the content type of the response that has the same flag
\* and the first entry alone: as error without content type when flagged,
\* as that response is classified otherwise.
C35_FirstEntryOnly ==
  \A c \in Slots :
    Delivered(c) /\ Responded(calls[c]) /\ ~NoContent(calls[c].resp)
    => LET r == calls[c] IN
       IF r.resp.flag = "true"
         THEN r.out.resultType = "error" /\ r.out.contentType = "none"
         ELSE /\ r.out.resultType = Classify(FirstOnly(r.resp)).resultType
              /\ r.out.contentType = Classify(FirstOnly(r.resp)).contentType

C35_Witness ==
  \E c \in Slots :
    /\ Delivered(c) /\ Responded(calls[c])
    /\ calls[c].resp.flag = "none"
    /\ calls[c].resp.content = <<TextEntry(Txt_ok), TextEntry(Txt_jsonStatusError)>>
    /\ calls[c].out.resultType = "success" /\ calls[c].out.contentType = "text"

\* C36: a connect call that is in a handshake (the spawn, if any, having
\* returned) returns.
C36_ConnectReturns ==
  \A c \in Slots :
    (calls[c].op = "mcpConnect" /\ calls[c].pc \in {"handshake", "http1", "http2"})
      ~> (calls[c].op = "mcpConnect" /\ calls[c].pc = "done")

C36_Witness ==
  \E c, d \in Slots :
    /\ IsDone(c, "mcpConnect") /\ Len(calls[c].attempts) = 2
    /\ ~calls[c].ret.success
    /\ calls[d].op = "mcpConnect" /\ calls[d].pc = "spawn"

StorageOps == {"storageServerAdd", "storageUpdateServer", "storageDeleteServer"}

Distinct(list) ==
  \A i, j \in 1..Len(list) : list[i].name = list[j].name => i = j

\* C37: a call of add, update (with or without an old name) or delete on a
\* store whose names are pairwise distinct leaves them pairwise distinct,
\* and a call that returns an error leaves the stored list as it was.
C37_StoreNamesDistinct ==
  [][\A c \in Slots :
       issued' # issued /\ calls'[c].op \in StorageOps /\ calls'[c].pc = "done"
       => /\ Distinct(servers) => Distinct(servers')
          /\ ~calls'[c].ret.success => servers' = servers
          /\ calls'[c].ret.success /\ calls'[c].op = "storageServerAdd"
             => Len(servers') = Len(servers) + 1 /\ Stored(servers', calls'[c].name)]_vars

C37_Witness ==
  \E c \in Slots :
    /\ IsDone(c, "storageServerAdd")
    /\ calls[c].ret = Fail(AlreadyExists(calls[c].name))
    /\ Len(servers) = 2 /\ Distinct(servers)
    /\ issued = MaxStoreCalls

\* C38: when the delete-server command is over and has removed the stored
\* record of its server, no session is registered under the server's name.
C38_DeletedNotConnected ==
  \A c \in Slots :
    IsDone(c, "StorageDeleteServerCommand") /\ calls[c].saved.success
      => /\ ~calls[c].obs
         /\ ~mcpIsServerConnected(activeClients, calls[c].name)

\* C39: when a disconnect returns whose close was outstanding while another
\* session became registered under the same name, that newer session's
\* entry is still in the registry.
C39_DisconnectRemovesOwnSession ==
  [][\A c \in Slots :
       /\ calls[c].op = "mcpDisconnect" /\ calls[c].pc = "close"
       /\ calls'[c].op = "mcpDisconnect" /\ calls'[c].pc = "done"
       /\ activeClients[calls[c].name] \notin {0, calls[c].client}
       => activeClients'[calls[c].name] = activeClients[calls[c].name]]_vars

\* C40: a STDIO connect of command "uv" whose args hold "--directory" or
\* "-d" spawns the configured args as they are and sets no cwd option; and
\* the rewrite applied to what any STDIO connect spawns changes nothing for
\* "uv".
C40_UvRewriteIdempotent ==
  \A c \in Slots :
    calls[c].op = "mcpConnect" /\ calls[c].kind = "stdio" /\ calls[c].pc # "idle"
    => LET cfg == calls[c].stdioConfig
           sp == calls[c].spawn
       IN
       cfg.cmd = "uv"
       => /\ HasDirectoryFlag(cfg) => sp.args = cfg.args /\ ~sp.cwd.has
          /\ DirSet(cfg) => ~sp.cwd.has
          /\ SpawnOptions(StdioConfig(sp.command, sp.args, sp.cwd)) = sp

C40_Witness ==
  \E c \in Slots :
    /\ calls[c].op = "mcpConnect" /\ calls[c].pc = "handshake"
    /\ calls[c].stdioConfig = StdioConfig("uv", <<"-d", "server.py">>, Dir("/srv/app"))
    /\ calls[c].spawn.args = <<"-d", "server.py">>
    /\ ~calls[c].spawn.cwd.has
====
